---- MODULE Spec2Model ----
(***************************************************************************)
(* A model of smeagol, a Hashlife engine for Conway's Game of Life.        *)
(*                                                                         *)
(* Representation of the SIMD vectors.  A u16x16 board is the set of its   *)
(* 1 bits, the bit b (0 = least significant) of lane l being the number    *)
(* l * 16 + b; a u16x32 board likewise over 32 lanes and a u8x8 board is   *)
(* the set of l * 8 + b.  Lane-wise &, | and ^ are intersection, union and *)
(* symmetric difference, a lane-wise shift moves every bit inside its lane *)
(* and drops the bits that leave the lane (the width of a lane is kept),   *)
(* and shuffle! selects lanes by an index vector.                          *)
(***************************************************************************)
EXTENDS Integers, Sequences, FiniteSets, TLC

\* ------------------------------------------------------------------------
\* Program constants
\* ------------------------------------------------------------------------
MAX_LEVEL == 64

INITIAL_LEVEL == 5

\* Option<NodeId>::None in the step and jump caches (NodeIds are >= 0)
None == 0 - 1

\* ------------------------------------------------------------------------
\* Bounds of the model
\* ------------------------------------------------------------------------
\* largest step exponent that is applied to a pattern and computed through
MaxStepLog == 4

\* number of operations applied to a Life in one behaviour
MaxOps == 3

\* number of set_cell_alive calls in one behaviour
MaxSets == 1

\* the operations on nodes along one behaviour, and the level up to which the
\* root is expanded
MaxNodeOps == 2

MaxExpandLevel == 6

\* the calls of the store's constructors along one behaviour
MaxStoreOps == 2

\* the positions examined around the centre of a node: x, y in -MaxCoord .. MaxCoord - 1
MaxCoord == 16

\* ------------------------------------------------------------------------
\* Arithmetic helpers
\* ------------------------------------------------------------------------
RECURSIVE Pow2(_)
Pow2(n) == IF n = 0 THEN 1 ELSE 2 * Pow2(n - 1)

\* ------------------------------------------------------------------------
\* Function calls
\* ------------------------------------------------------------------------
\* Call(f, a) is the value of the function f on the arguments a; call_f
\* names the call of f.  The functions of the program call one another and
\* themselves, so every call goes through the one recursive operator, whose
\* definition follows the definitions of the functions.
RECURSIVE Call(_, _)

call_create_level_3(s, board) == Call("create_level_3", <<s, board>>)

call_create_level_4(s, board) == Call("create_level_4", <<s, board>>)

call_create_interior(s, template) == Call("create_interior", <<s, template>>)

call_create_empty(s, lvl) == Call("create_empty", <<s, lvl>>)

call_expand(s, id) == Call("expand", <<s, id>>)

call_nw(s, id) == Call("nw", <<s, id>>)

call_ne(s, id) == Call("ne", <<s, id>>)

call_sw(s, id) == Call("sw", <<s, id>>)

call_se(s, id) == Call("se", <<s, id>>)

call_center_subnode(s, id) == Call("center_subnode", <<s, id>>)

call_centered_horiz(s, w, e) == Call("centered_horiz", <<s, w, e>>)

call_centered_vert(s, n, so) == Call("centered_vert", <<s, n, so>>)

call_north_subsubnode(s, id) == Call("north_subsubnode", <<s, id>>)

call_south_subsubnode(s, id) == Call("south_subsubnode", <<s, id>>)

call_west_subsubnode(s, id) == Call("west_subsubnode", <<s, id>>)

call_east_subsubnode(s, id) == Call("east_subsubnode", <<s, id>>)

call_get_cell(s, id, pos) == Call("get_cell", <<s, id, pos>>)

call_set_cell_alive(s, id, pos) == Call("set_cell_alive", <<s, id, pos>>)

call_get_alive_cells(s, id) == Call("get_alive_cells", <<s, id>>)

call_set_cells_alive_recursive(s, id, coords, offset_x, offset_y) == Call("set_cells_alive_recursive", <<s, id, coords, offset_x, offset_y>>)

call_set_cells_alive(s, id, coords) == Call("set_cells_alive", <<s, id, coords>>)

call_bounding_box(s, id) == Call("bounding_box", <<s, id>>)
call_contains_alive_cells(s, id, upper_left, lower_right) == Call("contains_alive_cells", <<s, id, upper_left, lower_right>>)

call_step_level_5(s, k, t_nw, t_ne, t_sw, t_se) == Call("step_level_5", <<s, k, t_nw, t_ne, t_sw, t_se>>)

call_jump_level_5(s, t_nw, t_ne, t_sw, t_se) == Call("jump_level_5", <<s, t_nw, t_ne, t_sw, t_se>>)

call_jump(s, id) == Call("jump", <<s, id>>)

call_horiz_jump(s, w, e) == Call("horiz_jump", <<s, w, e>>)

call_vert_jump(s, n, so) == Call("vert_jump", <<s, n, so>>)

call_step(s, id) == Call("step", <<s, id>>)

call_pad(s, root_id) == Call("pad", <<s, root_id>>)

call_from_rle(alive_cells) == Call("from_rle", <<alive_cells>>)

call_Life_step(s, root_id, gen) == Call("Life_step", <<s, root_id, gen>>)

call_step_once_u16x16(board) == Call("step_once_u16x16", <<board>>)

call_step_once_u16x32(board) == Call("step_once_u16x32", <<board>>)

call_combine_results_u16x16(nw_grid, ne_grid, sw_grid, se_grid) == Call("combine_results_u16x16", <<nw_grid, ne_grid, sw_grid, se_grid>>)

\* ------------------------------------------------------------------------
\* Lane vectors
\* ------------------------------------------------------------------------
Bits16x16 == 0 .. 255

Bits16x32 == 0 .. 511

\* board << n on 16-bit lanes
Shl16(board, n) == { e + n : e \in { f \in board : (f % 16) + n <= 15 } }

\* board >> n on 16-bit lanes
Shr16(board, n) == { e - n : e \in { f \in board : (f % 16) >= n } }

\* shuffle!(board, idx): lane i of the result is lane idx[i + 1] of board
Shuffle16(board, idx) ==
    UNION { { (i - 1) * 16 + (e % 16) : i \in { j \in 1 .. Len(idx) : idx[j] = e \div 16 } }
            : e \in board }

\* shuffle!(a, b, idx) with two u16x16 inputs: the lanes of b follow those of a
Concat16(a, b) == a \cup { e + 256 : e \in b }

Xor(a, b) == (a \ b) \cup (b \ a)

\* ------------------------------------------------------------------------
\* Bit-board kernels (src/node/impls/evolve.rs)
\* ------------------------------------------------------------------------
\* CountsU16x16::new / CountsU16x32::new
Counts_new == [low |-> {}, mid |-> {}, high |-> {}]

\* Counts::add with a high bit that is a third adder bit and wraps at eight
Counts_add_wrapping_high(c, neighbors) ==
    [low  |-> Xor(c.low, neighbors),
     mid  |-> Xor(c.mid, c.low \cap neighbors),
     high |-> Xor(c.high, c.mid \cap (c.low \cap neighbors))]

\* CountsU16x16::add / CountsU16x32::add
Counts_add(c, neighbors) ==
    [low  |-> Xor(c.low, neighbors),
     mid  |-> Xor(c.mid, c.low \cap neighbors),
     high |-> c.high \cup (c.mid \cap (c.low \cap neighbors))]

rotate_lanes_up_u16x16(board) ==
    Shuffle16(board, <<1, 2, 3, 4, 5, 6, 7, 8, 9, 10, 11, 12, 13, 14, 15, 0>>)

rotate_lanes_down_u16x16(board) ==
    Shuffle16(board, <<15, 0, 1, 2, 3, 4, 5, 6, 7, 8, 9, 10, 11, 12, 13, 14>>)

rotate_lanes_up_u16x32(board) ==
    Shuffle16(board, <<1, 2, 3, 4, 5, 6, 7, 8, 9, 10, 11, 12, 13, 14, 15, 16, 17, 18,
                       19, 20, 21, 22, 23, 24, 25, 26, 27, 28, 29, 30, 31, 0>>)

rotate_lanes_down_u16x32(board) ==
    Shuffle16(board, <<31, 0, 1, 2, 3, 4, 5, 6, 7, 8, 9, 10, 11, 12, 13, 14, 15, 16,
                       17, 18, 19, 20, 21, 22, 23, 24, 25, 26, 27, 28, 29, 30>>)

\* Rust evaluates a function body statement by statement.  Bind(val, Body) is
\* the rest of a body, Body, applied to the value of the statement before it:
\* val is evaluated first, once, and Body then sees its value.
Bind(val, Body(_)) == CHOOSE r \in { Body(v) : v \in {val} } : TRUE

\* the eight neighbors.add(..) of step_once_u16x16 and step_once_u16x32
neighbor_counts(board, up, down) ==
    Counts_add(Counts_add(Counts_add(Counts_add(Counts_add(Counts_add(Counts_add(Counts_add(
        Counts_new, Shr16(down, 1)), down), Shl16(down, 1)), Shr16(board, 1)),
        Shl16(board, 1)), Shr16(up, 1)), up), Shl16(up, 1))

\* the body shared by step_once_u16x16 and step_once_u16x32: up and down are
\* the board rotated by one lane, all is every bit of the vector type
step_once_body(board, up, down, all) ==
    Bind(neighbor_counts(board, up, down), LAMBDA neighbors :
        LET two_neighbors   == ((all \ neighbors.high) \cap neighbors.mid)
                                   \cap (all \ neighbors.low)
            three_neighbors == ((all \ neighbors.high) \cap neighbors.mid) \cap neighbors.low
        IN  (two_neighbors \cap board) \cup three_neighbors)

step_once_u16x16(board) ==
    Bind(board, LAMBDA grid :
        step_once_body(grid, rotate_lanes_up_u16x16(grid), rotate_lanes_down_u16x16(grid),
                       Bits16x16))

step_once_u16x32(board) ==
    Bind(board, LAMBDA grid :
        step_once_body(grid, rotate_lanes_up_u16x32(grid), rotate_lanes_down_u16x32(grid),
                       Bits16x32))

jump_u16x16_three_generations(board) ==
    call_step_once_u16x16(call_step_once_u16x16(call_step_once_u16x16(board)))

jump_u16x16(board) ==
    call_step_once_u16x16(call_step_once_u16x16(call_step_once_u16x16(call_step_once_u16x16(board))))

jump_u16x32(board) ==
    call_step_once_u16x32(call_step_once_u16x32(call_step_once_u16x32(call_step_once_u16x32(board))))

RECURSIVE iterate_u16x16(_, _)
iterate_u16x16(board, n) ==
    IF n = 0 THEN board
    ELSE Bind(call_step_once_u16x16(board), LAMBDA grid : iterate_u16x16(grid, n - 1))

\* for _ in 0..(1 << step_log_2) { board = step_once_u16x16(board) }
step_u16x16(board, k) == iterate_u16x16(board, Pow2(k))

\* ------------------------------------------------------------------------
\* Edge assembly on bit-boards (src/node/impls/evolve.rs, src/lib.rs)
\* ------------------------------------------------------------------------
\* the upper eight lanes, high byte (the north-west 8x8 corner: MSB = west)
LEVEL_4_NW_MASK == { l * 16 + b : l \in 0 .. 7, b \in 8 .. 15 }

LEVEL_4_NE_MASK == { l * 16 + b : l \in 0 .. 7, b \in 0 .. 7 }

LEVEL_4_SW_MASK == { l * 16 + b : l \in 8 .. 15, b \in 8 .. 15 }

LEVEL_4_SE_MASK == { l * 16 + b : l \in 8 .. 15, b \in 0 .. 7 }

combine_results_u16x16(nw_grid, ne_grid, sw_grid, se_grid) ==
    LET nw == Shuffle16(Shl16(nw_grid, 4),
                        <<4, 5, 6, 7, 8, 9, 10, 11, 12, 13, 14, 15, 0, 1, 2, 3>>)
                  \cap LEVEL_4_NW_MASK
        ne == Shuffle16(Shr16(ne_grid, 4),
                        <<4, 5, 6, 7, 8, 9, 10, 11, 12, 13, 14, 15, 0, 1, 2, 3>>)
                  \cap LEVEL_4_NE_MASK
        sw == Shuffle16(Shl16(sw_grid, 4),
                        <<12, 13, 14, 15, 0, 1, 2, 3, 4, 5, 6, 7, 8, 9, 10, 11>>)
                  \cap LEVEL_4_SW_MASK
        se == Shuffle16(Shr16(se_grid, 4),
                        <<12, 13, 14, 15, 0, 1, 2, 3, 4, 5, 6, 7, 8, 9, 10, 11>>)
                  \cap LEVEL_4_SE_MASK
    IN  ((nw \cup ne) \cup sw) \cup se

horiz_u16x16(w, e) == Shl16(w, 8) \cup Shr16(e, 8)

vert_u16x16(n, s) ==
    Shuffle16(Concat16(n, s),
              <<8, 9, 10, 11, 12, 13, 14, 15, 16, 17, 18, 19, 20, 21, 22, 23>>)

\* center_of_four_u16x16, which evolve.rs calls center
center(nw_grid, ne_grid, sw_grid, se_grid) ==
    LET left  == Shuffle16(Concat16(Shl16(nw_grid, 8), Shl16(sw_grid, 8)),
                           <<8, 9, 10, 11, 12, 13, 14, 15, 16, 17, 18, 19, 20, 21, 22, 23>>)
        right == Shuffle16(Concat16(Shr16(ne_grid, 8), Shr16(se_grid, 8)),
                           <<8, 9, 10, 11, 12, 13, 14, 15, 16, 17, 18, 19, 20, 21, 22, 23>>)
    IN  left \cup right

\* ------------------------------------------------------------------------
\* The node store (smeagol/src/node.rs, smeagol/src/node/store.rs)
\* ------------------------------------------------------------------------
\* NodeBase; the fields a variant does not have are left at None / {}
LevelThree(board) ==
    [kind |-> "LevelThree", board |-> board, nw |-> None, ne |-> None, sw |-> None, se |-> None]

LevelFour(board) ==
    [kind |-> "LevelFour", board |-> board, nw |-> None, ne |-> None, sw |-> None, se |-> None]

Interior(nw, ne, sw, se) ==
    [kind |-> "Interior", board |-> {}, nw |-> nw, ne |-> ne, sw |-> sw, se |-> se]

\* Store::new.  ids is the HashMap<NodeBase, NodeId>, a function on the bases
\* it holds; a NodeId is the index into nodes, counted from 0.  panicked is
\* not a field of the struct: it records that a panic! or a failed assert has
\* unwound the call, after which no operation does anything.
Store_new ==
    [ids |-> <<>>, nodes |-> <<>>, steps |-> <<>>, jumps |-> <<>>, step_log_2 |-> 0,
     panicked |-> FALSE, calls |-> {}]

\* the result of a call that returns a NodeId and may have changed the store
Ret(s, id) == [store |-> s, id |-> id]

Panic(s) == Ret([s EXCEPT !.panicked = TRUE], 0)

\* the store with a record of the invocation of op on a node of a kind and a
\* level, for the step exponent k; calls holds the invocations of
\* NodeId::step, NodeId::jump and step_level_5 that the store has seen
Invoked(s, op, kind, lvl, k) ==
    [s EXCEPT !.calls = @ \cup {[op |-> op, kind |-> kind, level |-> lvl, k |-> k]}]

get(s, id) == s.nodes[id + 1]

base(s, id) == get(s, id).base

level(s, id) == get(s, id).level

population(s, id) == get(s, id).population

step_log_2(s) == s.step_log_2

\* set_step_log_2 that keeps the step cache
set_step_log_2_keeping_steps(s, k) == [s EXCEPT !.step_log_2 = k]

\* set_step_log_2 that empties the jump cache along with the step cache
set_step_log_2_dropping_jumps(s, k) ==
    IF s.step_log_2 # k
    THEN [s EXCEPT !.step_log_2 = k, !.steps = [i \in 1 .. Len(s.steps) |-> None],
                   !.jumps = [i \in 1 .. Len(s.jumps) |-> None]]
    ELSE s

set_step_log_2(s, k) ==
    IF s.step_log_2 # k
    THEN [s EXCEPT !.step_log_2 = k, !.steps = [i \in 1 .. Len(s.steps) |-> None]]
    ELSE s

add_jump(s, id, j) == [s EXCEPT !.jumps[id + 1] = j]

get_jump(s, id) == s.jumps[id + 1]

add_step(s, id, st) == [s EXCEPT !.steps[id + 1] = st]

get_step(s, id) == s.steps[id + 1]

\* add_node without the lookup in ids: every request appends a node
add_node_unchecked(s, node) ==
    Ret([s EXCEPT !.ids = (node.base :> Len(s.nodes)) @@ s.ids,
                  !.nodes = Append(s.nodes, node),
                  !.steps = Append(s.steps, None),
                  !.jumps = Append(s.jumps, None)], Len(s.nodes))

add_node(s, node) ==
    IF node.base \in DOMAIN s.ids
    THEN Ret(s, s.ids[node.base])
    ELSE LET id == Len(s.nodes)
         IN  Ret([s EXCEPT !.ids = (node.base :> id) @@ s.ids,
                           !.nodes = Append(s.nodes, node),
                           !.steps = Append(s.steps, None),
                           !.jumps = Append(s.jumps, None)], id)

\* the number of lanes of the board that hold a 1 bit
count_ones_lanes(board) == Cardinality({ e \div 16 : e \in board })

\* board.count_ones().wrapping_sum(): the lane sums are at most 64 and 256
count_ones_sum(board) == Cardinality(board)

create_level_3(s, board) ==
    IF s.panicked THEN Ret(s, 0)
    ELSE add_node(s, [base |-> LevelThree(board), level |-> 3,
                      population |-> count_ones_sum(board)])

create_level_4(s, board) ==
    IF s.panicked THEN Ret(s, 0)
    ELSE add_node(s, [base |-> LevelFour(board), level |-> 4,
                      population |-> count_ones_sum(board)])

\* u16::from_be_bytes([w[i], e[i]]) for the eight lanes of two 8x8 boards
from_be_bytes_exchanged(w_board, e_board, first_lane) ==
    { (first_lane + (e \div 8)) * 16 + (e % 8) : e \in w_board }
        \cup { (first_lane + (e \div 8)) * 16 + 8 + (e % 8) : e \in e_board }

from_be_bytes(w_board, e_board, first_lane) ==
    { (first_lane + (e \div 8)) * 16 + 8 + (e % 8) : e \in w_board }
        \cup { (first_lane + (e \div 8)) * 16 + (e % 8) : e \in e_board }

\* NodeTemplate
NodeTemplate(nw, ne, sw, se) == [nw |-> nw, ne |-> ne, sw |-> sw, se |-> se]

\* create_interior that makes an Interior node of four level-3 children too
create_interior_of_any_level(s, template) ==
    IF s.panicked THEN Ret(s, 0)
    ELSE IF level(s, template.sw) # level(s, template.ne)
            \/ level(s, template.se) # level(s, template.ne)
            \/ level(s, template.ne) + 1 > MAX_LEVEL
    THEN Panic(s)
    ELSE add_node(s, [base |-> Interior(template.nw, template.ne, template.sw, template.se),
                      level |-> level(s, template.ne) + 1,
                      population |-> population(s, template.nw) + population(s, template.ne)
                                     + population(s, template.sw)
                                     + population(s, template.se)])

\* create_interior that gives a node with a populated north-western child
\* the level above its own
create_interior_of_population_level(s, template) ==
    IF s.panicked THEN Ret(s, 0)
    ELSE
    LET lvl == level(s, template.ne)
        new_level == lvl + 1
    IN  IF level(s, template.ne) # lvl \/ level(s, template.sw) # lvl
           \/ level(s, template.se) # lvl
        THEN Panic(s)
        ELSE IF new_level > MAX_LEVEL
        THEN Panic(s)
        ELSE IF new_level = 4
        THEN IF /\ base(s, template.nw).kind = "LevelThree"
                /\ base(s, template.ne).kind = "LevelThree"
                /\ base(s, template.sw).kind = "LevelThree"
                /\ base(s, template.se).kind = "LevelThree"
             THEN call_create_level_4(s,
                      from_be_bytes(base(s, template.nw).board, base(s, template.ne).board, 0)
                      \cup from_be_bytes(base(s, template.sw).board,
                                         base(s, template.se).board, 8))
             ELSE Panic(s)
        ELSE add_node(s, [base |-> Interior(template.nw, template.ne, template.sw, template.se),
                          level |-> IF population(s, template.nw) > 0
                                    THEN new_level + 1 ELSE new_level,
                          population |-> population(s, template.nw) + population(s, template.ne)
                                         + population(s, template.sw)
                                         + population(s, template.se)])

create_interior(s, template) ==
    IF s.panicked THEN Ret(s, 0)
    ELSE
    LET lvl == level(s, template.ne)
        new_level == lvl + 1
    IN  IF level(s, template.ne) # lvl \/ level(s, template.sw) # lvl
           \/ level(s, template.se) # lvl
        THEN Panic(s)
        ELSE IF new_level > MAX_LEVEL
        THEN Panic(s)
        ELSE IF new_level = 4
        THEN IF /\ base(s, template.nw).kind = "LevelThree"
                /\ base(s, template.ne).kind = "LevelThree"
                /\ base(s, template.sw).kind = "LevelThree"
                /\ base(s, template.se).kind = "LevelThree"
             THEN call_create_level_4(s,
                      from_be_bytes(base(s, template.nw).board, base(s, template.ne).board, 0)
                      \cup from_be_bytes(base(s, template.sw).board,
                                         base(s, template.se).board, 8))
             ELSE Panic(s)
        ELSE add_node(s, [base |-> Interior(template.nw, template.ne, template.sw, template.se),
                          level |-> new_level,
                          population |-> population(s, template.nw) + population(s, template.ne)
                                         + population(s, template.sw)
                                         + population(s, template.se)])

\* the recursion of create_empty above level 4, bottom-up: from the empty node
\* r of level lo - 1, the empty nodes of the levels lo .. hi in turn.  The
\* levels are split in halves to keep the evaluation shallow.
RECURSIVE create_empty_levels(_, _, _)
create_empty_levels(r, lo, hi) ==
    IF lo > hi THEN r
    ELSE IF lo = hi
    THEN call_create_interior(r.store, NodeTemplate(r.id, r.id, r.id, r.id))
    ELSE Bind(create_empty_levels(r, lo, (lo + hi) \div 2), LAMBDA lower :
             create_empty_levels(lower, ((lo + hi) \div 2) + 1, hi))

\* create_empty that makes no empty node above level 6
create_empty_capped(s, lvl) ==
    IF s.panicked THEN Ret(s, 0)
    ELSE IF lvl \in {0, 1, 2} THEN Panic(s)
    ELSE IF lvl = 3 THEN call_create_level_3(s, {})
    ELSE IF lvl = 4 THEN call_create_level_4(s, {})
    ELSE create_empty_levels(call_create_level_4(s, {}), 5, IF lvl > 6 THEN 6 ELSE lvl)

create_empty(s, lvl) ==
    IF s.panicked THEN Ret(s, 0)
    ELSE IF lvl \in {0, 1, 2} THEN Panic(s)
    ELSE IF lvl = 3 THEN call_create_level_3(s, {})
    ELSE IF lvl = 4 THEN call_create_level_4(s, {})
    ELSE create_empty_levels(call_create_level_4(s, {}), 5, lvl)

\* ------------------------------------------------------------------------
\* Regions of a node (smeagol/src/node/impls/region.rs)
\* ------------------------------------------------------------------------
\* the u8x8 of board_array[first_lane + i].to_be_bytes()[byte], i = 0 .. 7
\* (byte 0 is the high byte of the u16)
to_be_bytes(board, first_lane, byte) ==
    LET shift == IF byte = 0 THEN 8 ELSE 0
    IN  { ((e \div 16) - first_lane) * 8 + ((e % 16) - shift) :
            e \in { f \in board : /\ (f \div 16) \in first_lane .. first_lane + 7
                                  /\ ((f % 16) - shift) \in 0 .. 7 } }

\* the u8x8 of util::center(board_array[first_lane + i]) = (row >> 4) as u8
util_center(board, first_lane) ==
    { ((e \div 16) - first_lane) * 8 + ((e % 16) - 4) :
        e \in { f \in board : /\ (f \div 16) \in first_lane .. first_lane + 7
                              /\ ((f % 16) - 4) \in 0 .. 7 } }

\* board << n and board >> n on the 8-bit lanes of a u8x8
Shl8(board, n) == { e + n : e \in { f \in board : (f % 8) + n <= 7 } }

Shr8(board, n) == { e - n : e \in { f \in board : (f % 8) >= n } }

\* expand that puts the node into the northwestern quadrant
expand_into_corner(s, id) ==
    IF s.panicked THEN Ret(s, 0)
    ELSE IF base(s, id).kind # "Interior" THEN Panic(s)
    ELSE Bind(call_create_empty(s, level(s, id)), LAMBDA empty :
             call_create_interior(empty.store, NodeTemplate(id, empty.id, empty.id, empty.id)))

expand(s, id) ==
    IF s.panicked THEN Ret(s, 0)
    ELSE IF base(s, id).kind # "Interior" THEN Panic(s)
    ELSE
    Bind(base(s, id), LAMBDA node :
    Bind(call_create_empty(s, level(s, id) - 1), LAMBDA empty :
    Bind(call_create_interior(empty.store,
             NodeTemplate(empty.id, empty.id, empty.id, node.nw)), LAMBDA x_nw :
    Bind(call_create_interior(x_nw.store,
             NodeTemplate(empty.id, empty.id, node.ne, empty.id)), LAMBDA x_ne :
    Bind(call_create_interior(x_ne.store,
             NodeTemplate(empty.id, node.sw, empty.id, empty.id)), LAMBDA x_sw :
    Bind(call_create_interior(x_sw.store,
             NodeTemplate(node.se, empty.id, empty.id, empty.id)), LAMBDA x_se :
        call_create_interior(x_se.store, NodeTemplate(x_nw.id, x_ne.id, x_sw.id, x_se.id))))))))

\* nw that puts the northwestern child together again from its quadrants
nw_rebuilt(s, id) ==
    IF s.panicked THEN Ret(s, 0)
    ELSE IF base(s, id).kind = "LevelThree" THEN Panic(s)
    ELSE IF base(s, id).kind = "LevelFour"
    THEN call_create_level_3(s, to_be_bytes(base(s, id).board, 0, 0))
    ELSE Bind(call_nw(s, base(s, id).nw), LAMBDA q_nw :
         Bind(call_ne(q_nw.store, base(s, id).nw), LAMBDA q_ne :
         Bind(call_sw(q_ne.store, base(s, id).nw), LAMBDA q_sw :
         Bind(call_se(q_sw.store, base(s, id).nw), LAMBDA q_se :
             call_create_interior(q_se.store,
                 NodeTemplate(q_nw.id, q_ne.id, q_sw.id, q_se.id))))))

nw(s, id) ==
    IF s.panicked THEN Ret(s, 0)
    ELSE IF base(s, id).kind = "LevelThree" THEN Panic(s)
    ELSE IF base(s, id).kind = "LevelFour"
    THEN call_create_level_3(s, to_be_bytes(base(s, id).board, 0, 0))
    ELSE Ret(s, base(s, id).nw)

ne(s, id) ==
    IF s.panicked THEN Ret(s, 0)
    ELSE IF base(s, id).kind = "LevelThree" THEN Panic(s)
    ELSE IF base(s, id).kind = "LevelFour"
    THEN call_create_level_3(s, to_be_bytes(base(s, id).board, 0, 1))
    ELSE Ret(s, base(s, id).ne)

sw(s, id) ==
    IF s.panicked THEN Ret(s, 0)
    ELSE IF base(s, id).kind = "LevelThree" THEN Panic(s)
    ELSE IF base(s, id).kind = "LevelFour"
    THEN call_create_level_3(s, to_be_bytes(base(s, id).board, 8, 0))
    ELSE Ret(s, base(s, id).sw)

se(s, id) ==
    IF s.panicked THEN Ret(s, 0)
    ELSE IF base(s, id).kind = "LevelThree" THEN Panic(s)
    ELSE IF base(s, id).kind = "LevelFour"
    THEN call_create_level_3(s, to_be_bytes(base(s, id).board, 8, 1))
    ELSE Ret(s, base(s, id).se)

center_subnode(s, id) ==
    IF s.panicked THEN Ret(s, 0)
    ELSE IF base(s, id).kind = "LevelThree" THEN Panic(s)
    ELSE IF base(s, id).kind = "LevelFour"
    THEN call_create_level_3(s, util_center(base(s, id).board, 4))
    ELSE
    Bind(base(s, id), LAMBDA node :
    Bind(call_se(s, node.nw), LAMBDA c_nw :
    Bind(call_sw(c_nw.store, node.ne), LAMBDA c_ne :
    Bind(call_ne(c_ne.store, node.sw), LAMBDA c_sw :
    Bind(call_nw(c_sw.store, node.se), LAMBDA c_se :
        call_create_interior(c_se.store, NodeTemplate(c_nw.id, c_ne.id, c_sw.id, c_se.id)))))))

centered_horiz(s, w, e) ==
    IF s.panicked THEN Ret(s, 0)
    ELSE IF base(s, e).kind = "LevelFour" /\ base(s, w).kind = "LevelFour"
    THEN call_create_level_3(s, Shl8(to_be_bytes(base(s, w).board, 4, 1), 4)
                           \cup Shr8(to_be_bytes(base(s, e).board, 4, 0), 4))
    ELSE IF base(s, e).kind = "Interior" /\ base(s, w).kind = "Interior"
    THEN
    Bind(call_ne(s, w), LAMBDA w_ne :
    Bind(call_se(w_ne.store, w_ne.id), LAMBDA h_nw :
    Bind(call_nw(h_nw.store, e), LAMBDA e_nw :
    Bind(call_sw(e_nw.store, e_nw.id), LAMBDA h_ne :
    Bind(call_se(h_ne.store, w), LAMBDA w_se :
    Bind(call_ne(w_se.store, w_se.id), LAMBDA h_sw :
    Bind(call_sw(h_sw.store, e), LAMBDA e_sw :
    Bind(call_nw(e_sw.store, e_sw.id), LAMBDA h_se :
        call_create_interior(h_se.store,
                        NodeTemplate(h_nw.id, h_ne.id, h_sw.id, h_se.id))))))))))
    ELSE Panic(s)

centered_vert(s, n, so) ==
    IF s.panicked THEN Ret(s, 0)
    ELSE IF base(s, n).kind = "LevelFour" /\ base(s, so).kind = "LevelFour"
    THEN call_create_level_3(s, util_center(base(s, n).board, 12)
                           \cup util_center(base(s, so).board, 0 - 4))
    ELSE IF base(s, n).kind = "Interior" /\ base(s, so).kind = "Interior"
    THEN
    Bind(call_sw(s, n), LAMBDA n_sw :
    Bind(call_se(n_sw.store, n_sw.id), LAMBDA v_nw :
    Bind(call_se(v_nw.store, n), LAMBDA n_se :
    Bind(call_sw(n_se.store, n_se.id), LAMBDA v_ne :
    Bind(call_nw(v_ne.store, so), LAMBDA s_nw :
    Bind(call_ne(s_nw.store, s_nw.id), LAMBDA v_sw :
    Bind(call_ne(v_sw.store, so), LAMBDA s_ne :
    Bind(call_nw(s_ne.store, s_ne.id), LAMBDA v_se :
        call_create_interior(v_se.store,
                        NodeTemplate(v_nw.id, v_ne.id, v_sw.id, v_se.id))))))))))
    ELSE Panic(s)

north_subsubnode(s, id) ==
    Bind(call_nw(s, id), LAMBDA w :
    Bind(call_ne(w.store, id), LAMBDA e :
        call_centered_horiz(e.store, w.id, e.id)))

south_subsubnode(s, id) ==
    Bind(call_sw(s, id), LAMBDA w :
    Bind(call_se(w.store, id), LAMBDA e :
        call_centered_horiz(e.store, w.id, e.id)))

west_subsubnode(s, id) ==
    Bind(call_nw(s, id), LAMBDA n :
    Bind(call_sw(n.store, id), LAMBDA so :
        call_centered_vert(so.store, n.id, so.id)))

east_subsubnode(s, id) ==
    Bind(call_ne(s, id), LAMBDA n :
    Bind(call_se(n.store, id), LAMBDA so :
        call_centered_vert(so.store, n.id, so.id)))

\* ------------------------------------------------------------------------
\* Coordinates and cells (smeagol/src/lib.rs, node/impls/properties.rs,
\* node/impls/get_set.rs)
\* ------------------------------------------------------------------------
Position(x, y) == [x |-> x, y |-> y]

Position_offset(pos, x_offset, y_offset) == [x |-> pos.x + x_offset, y |-> pos.y + y_offset]

Position_quadrant(pos) ==
    IF pos.x < 0 /\ pos.y < 0 THEN "Northwest"
    ELSE IF pos.y < 0 THEN "Northeast"
    ELSE IF pos.x < 0 THEN "Southwest"
    ELSE "Southeast"

min_coord(s, id) ==
    IF level(s, id) = 64 THEN 0 - Pow2(63) ELSE 0 - Pow2(level(s, id) - 1)

max_coord(s, id) ==
    IF level(s, id) = 64 THEN Pow2(63) - 1 ELSE Pow2(level(s, id) - 1) - 1

\* TRUE for Cell::Alive.  In a leaf the lane is y_offset and the bit x_offset;
\* the operator is applied to positions inside the node only.
get_cell(s, id, pos) ==
    LET node == base(s, id)
    IN  IF node.kind = "LevelThree"
        THEN ((pos.y + 4) * 8 + (3 - pos.x)) \in node.board
        ELSE IF node.kind = "LevelFour"
        THEN ((pos.y + 8) * 16 + (7 - pos.x)) \in node.board
        ELSE LET offset == Pow2(level(s, id) - 2)
                 q == Position_quadrant(pos)
             IN  IF q = "Northwest"
                 THEN call_get_cell(s, node.nw, Position_offset(pos, offset, offset))
                 ELSE IF q = "Northeast"
                 THEN call_get_cell(s, node.ne, Position_offset(pos, 0 - offset, offset))
                 ELSE IF q = "Southwest"
                 THEN call_get_cell(s, node.sw, Position_offset(pos, offset, 0 - offset))
                 ELSE call_get_cell(s, node.se, Position_offset(pos, 0 - offset, 0 - offset))

\* the template of set_cell_alive: the children of node with the child of
\* quadrant q replaced
\* replace_quadrant with the two northern quadrants exchanged
replace_quadrant_exchanged(node, q, child) ==
    NodeTemplate(IF q = "Northeast" THEN child ELSE node.nw,
                 IF q = "Northwest" THEN child ELSE node.ne,
                 IF q = "Southwest" THEN child ELSE node.sw,
                 IF q = "Southeast" THEN child ELSE node.se)

replace_quadrant(node, q, child) ==
    NodeTemplate(IF q = "Northwest" THEN child ELSE node.nw,
                 IF q = "Northeast" THEN child ELSE node.ne,
                 IF q = "Southwest" THEN child ELSE node.sw,
                 IF q = "Southeast" THEN child ELSE node.se)

set_cell_alive(s, id, pos) ==
    IF s.panicked THEN Ret(s, 0)
    ELSE
    Bind(base(s, id), LAMBDA node :
        IF node.kind = "LevelThree"
        THEN call_create_level_3(s, node.board \cup {(pos.y + 4) * 8 + (3 - pos.x)})
        ELSE IF node.kind = "LevelFour"
        THEN call_create_level_4(s, node.board \cup {(pos.y + 8) * 16 + (7 - pos.x)})
        ELSE
        Bind(Pow2(level(s, id) - 2), LAMBDA offset :
        Bind(Position_quadrant(pos), LAMBDA q :
        Bind(IF q = "Northwest"
             THEN call_set_cell_alive(s, node.nw, Position_offset(pos, offset, offset))
             ELSE IF q = "Northeast"
             THEN call_set_cell_alive(s, node.ne, Position_offset(pos, 0 - offset, offset))
             ELSE IF q = "Southwest"
             THEN call_set_cell_alive(s, node.sw, Position_offset(pos, offset, 0 - offset))
             ELSE call_set_cell_alive(s, node.se, Position_offset(pos, 0 - offset, 0 - offset)),
             LAMBDA child :
                 call_create_interior(child.store, replace_quadrant(node, q, child.id))))))

\* the elements of a Vec or of a slice
Elements(coords) == { coords[i] : i \in 1 .. Len(coords) }

\* the positions that the loops `for x in min..=max { for y in min..=max`
\* of get_alive_cells visit, in the order of the visits
leaf_positions(min, max) ==
    [i \in 1 .. (max - min + 1) * (max - min + 1) |->
        Position(min + ((i - 1) \div (max - min + 1)), min + ((i - 1) % (max - min + 1)))]

\* a map that leaves the positions as the child lists them
map_offset_dropped(coords, x_offset, y_offset) == coords

\* into_iter().map(|pos| pos.offset(x_offset, y_offset))
map_offset(coords, x_offset, y_offset) ==
    [i \in 1 .. Len(coords) |-> Position_offset(coords[i], x_offset, y_offset)]

\* get_alive_cells that lists the quadrants of a node above level 5 from the
\* south-east to the north-west
get_alive_cells_by_level(s, id) ==
    LET node == base(s, id)
    IN  IF node.kind = "LevelThree"
        THEN SelectSeq(leaf_positions(0 - 4, 3), LAMBDA pos : call_get_cell(s, id, pos))
        ELSE IF node.kind = "LevelFour"
        THEN SelectSeq(leaf_positions(0 - 8, 7), LAMBDA pos : call_get_cell(s, id, pos))
        ELSE IF population(s, id) > 0
        THEN LET offset == Pow2(level(s, id) - 2)
             IN  IF level(s, id) > 5
                 THEN map_offset(call_get_alive_cells(s, node.se), offset, offset)
                      \o map_offset(call_get_alive_cells(s, node.sw), 0 - offset, offset)
                      \o map_offset(call_get_alive_cells(s, node.ne), offset, 0 - offset)
                      \o map_offset(call_get_alive_cells(s, node.nw), 0 - offset, 0 - offset)
                 ELSE map_offset(call_get_alive_cells(s, node.nw), 0 - offset, 0 - offset)
                      \o map_offset(call_get_alive_cells(s, node.ne), offset, 0 - offset)
                      \o map_offset(call_get_alive_cells(s, node.sw), 0 - offset, offset)
                      \o map_offset(call_get_alive_cells(s, node.se), offset, offset)
        ELSE <<>>

\* the Vec<Position> that get_alive_cells returns
get_alive_cells(s, id) ==
    LET node == base(s, id)
    IN  IF node.kind = "LevelThree"
        THEN SelectSeq(leaf_positions(0 - 4, 3), LAMBDA pos : call_get_cell(s, id, pos))
        ELSE IF node.kind = "LevelFour"
        THEN SelectSeq(leaf_positions(0 - 8, 7), LAMBDA pos : call_get_cell(s, id, pos))
        ELSE IF population(s, id) > 0
        THEN LET offset == Pow2(level(s, id) - 2)
             IN  map_offset(call_get_alive_cells(s, node.nw), 0 - offset, 0 - offset)
                 \o map_offset(call_get_alive_cells(s, node.ne), offset, 0 - offset)
                 \o map_offset(call_get_alive_cells(s, node.sw), 0 - offset, offset)
                 \o map_offset(call_get_alive_cells(s, node.se), offset, offset)
        ELSE <<>>

\* coords.swap(i, j)
swap(coords, i, j) == [coords EXCEPT ![i] = coords[j], ![j] = coords[i]]

\* the loop of partition_horiz (axis "x") and of partition_vert (axis "y")
\* from index i on (indices count from 1): the slice as the swaps leave it and
\* next_index
RECURSIVE partition_loop(_, _, _, _, _)
partition_loop(coords, axis, pivot, i, next_index) ==
    IF i > Len(coords) THEN [coords |-> coords, cutoff |-> next_index]
    ELSE IF (IF axis = "x" THEN coords[i].x ELSE coords[i].y) < pivot
    THEN partition_loop(swap(coords, i, next_index + 1), axis, pivot, i + 1, next_index + 1)
    ELSE partition_loop(coords, axis, pivot, i + 1, next_index)

\* partition_vert that counts the coordinates below the pivot and swaps none
partition_vert_counting(coords, pivot) ==
    [coords |-> coords,
     cutoff |-> Cardinality({ i \in 1 .. Len(coords) : coords[i].y < pivot })]

partition_vert(coords, pivot) == partition_loop(coords, "y", pivot, 1, 0)

partition_horiz(coords, pivot) == partition_loop(coords, "x", pivot, 1, 0)

\* coords.split_at_mut(mid)
split_at_mut(coords, mid) ==
    [front |-> SubSeq(coords, 1, mid), back |-> SubSeq(coords, mid + 1, Len(coords))]

\* the loops `for &mut pos in coords` of the leaves: the bits they set
leaf_bits(coords, offset_x, offset_y, half, lanes) ==
    { ((pos.y - offset_y) + half) * lanes + ((half - 1) - (pos.x - offset_x)) :
        pos \in Elements(coords) }

set_cells_alive_recursive(s, id, coords, offset_x, offset_y) ==
    IF s.panicked THEN Ret(s, 0)
    ELSE IF coords = <<>> THEN Ret(s, id)
    ELSE
    Bind(base(s, id), LAMBDA node :
        IF node.kind = "LevelThree"
        THEN call_create_level_3(s, node.board \cup leaf_bits(coords, offset_x, offset_y, 4, 8))
        ELSE IF node.kind = "LevelFour"
        THEN call_create_level_4(s, node.board \cup leaf_bits(coords, offset_x, offset_y, 8, 16))
        ELSE
        Bind(partition_vert(coords, offset_y), LAMBDA vert :
        Bind(split_at_mut(vert.coords, vert.cutoff), LAMBDA ns :
        Bind(partition_horiz(ns.front, offset_x), LAMBDA north :
        Bind(split_at_mut(north.coords, north.cutoff), LAMBDA n :
        Bind(partition_horiz(ns.back, offset_x), LAMBDA south :
        Bind(split_at_mut(south.coords, south.cutoff), LAMBDA so :
        Bind(Pow2(level(s, id) - 2), LAMBDA offset :
        Bind(call_set_cells_alive_recursive(s, node.nw, n.front,
                 offset_x - offset, offset_y - offset), LAMBDA r_nw :
        Bind(call_set_cells_alive_recursive(r_nw.store, node.ne, n.back,
                 offset_x + offset, offset_y - offset), LAMBDA r_ne :
        Bind(call_set_cells_alive_recursive(r_ne.store, node.sw, so.front,
                 offset_x - offset, offset_y + offset), LAMBDA r_sw :
        Bind(call_set_cells_alive_recursive(r_sw.store, node.se, so.back,
                 offset_x + offset, offset_y + offset), LAMBDA r_se :
            call_create_interior(r_se.store,
                            NodeTemplate(r_nw.id, r_ne.id, r_sw.id, r_se.id))))))))))))))

set_cells_alive(s, id, coords) == set_cells_alive_recursive(s, id, coords, 0, 0)

\* BoundingBox of src/src/lib.rs; new asserts that the corners are in order
BoundingBox_new(upper_left, lower_right) ==
    [upper_left |-> upper_left, lower_right |-> lower_right,
     panicked |-> ~(upper_left.x <= lower_right.x /\ upper_left.y <= lower_right.y)]

Min(a, b) == IF a <= b THEN a ELSE b

Max(a, b) == IF a >= b THEN a ELSE b

BoundingBox_combine_keeping_self(self, other) == self

BoundingBox_combine(self, other) ==
    LET min_x == Min(self.upper_left.x, other.upper_left.x)
        min_y == Min(self.upper_left.y, other.upper_left.y)
        max_x == Max(self.lower_right.x, other.lower_right.x)
        max_y == Max(self.lower_right.y, other.lower_right.y)
        combined == BoundingBox_new(Position(min_x, min_y), Position(max_x, max_y))
    IN  [combined EXCEPT !.panicked = @ \/ self.panicked \/ other.panicked]

BoundingBox_offset(self, x_offset, y_offset) ==
    LET moved == BoundingBox_new(Position_offset(self.upper_left, x_offset, y_offset),
                                 Position_offset(self.lower_right, x_offset, y_offset))
    IN  [moved EXCEPT !.panicked = @ \/ self.panicked]

\* i64::max_value() and i64::min_value(), which no coordinate of the model
\* comes near
max_value == 2147483647

min_value == 0 - max_value

\* for x in -8..8 of bounding_box, in the row y of a leaf
RECURSIVE row_bounds(_, _, _, _)
row_bounds(grid, y, x, acc) ==
    IF x = 8
    THEN acc
    ELSE LET y_offset == y + 8
             x_offset == 7 - x
         IN  row_bounds(grid, y, x + 1,
                 IF y_offset * 16 + x_offset \in grid
                 THEN [min_x |-> Min(acc.min_x, x), min_y |-> Min(acc.min_y, y),
                       max_x |-> Max(acc.max_x, x), max_y |-> Max(acc.max_y, y)]
                 ELSE acc)

\* for y in -8..8 of bounding_box
RECURSIVE leaf_bounds(_, _, _)
leaf_bounds(grid, y, acc) ==
    IF y = 8
    THEN acc
    ELSE Bind(row_bounds(grid, y, 0 - 8, acc), LAMBDA row : leaf_bounds(grid, y + 1, row))

\* bounding_box = if let Some(bbox) = bounding_box { Some(bbox.combine(other)) }
\*                else { Some(other) }
combine_option(bounding_box_so_far, child, x_offset, y_offset) ==
    IF child = <<>>
    THEN bounding_box_so_far
    ELSE LET moved == BoundingBox_offset(child[1], x_offset, y_offset)
         IN  IF bounding_box_so_far = <<>>
             THEN <<moved>>
             ELSE <<BoundingBox_combine(bounding_box_so_far[1], moved)>>

\* NodeId::bounding_box: None is <<>> and Some(box) is <<box>>
bounding_box(s, id) ==
    LET node == base(s, id)
    IN  IF node.kind = "LevelFour"
        THEN IF count_ones_sum(node.board) = 0
             THEN <<>>
             ELSE LET bounds == leaf_bounds(node.board, 0 - 8,
                                    [min_x |-> max_value, min_y |-> max_value,
                                     max_x |-> min_value, max_y |-> min_value])
                  IN  <<BoundingBox_new(Position(bounds.min_x, bounds.min_y),
                                        Position(bounds.max_x, bounds.max_y))>>
        ELSE IF population(s, id) = 0
             THEN <<>>
             ELSE LET offset == Pow2(level(s, id) - 2)
                  IN  Bind(call_bounding_box(s, node.nw), LAMBDA nw_bounding_box :
                      Bind(call_bounding_box(s, node.ne), LAMBDA ne_bounding_box :
                      Bind(call_bounding_box(s, node.sw), LAMBDA sw_bounding_box :
                      Bind(call_bounding_box(s, node.se), LAMBDA se_bounding_box :
                          combine_option(
                              combine_option(
                                  combine_option(
                                      combine_option(<<>>, nw_bounding_box, 0 - offset, 0 - offset),
                                      ne_bounding_box, offset, 0 - offset),
                                  sw_bounding_box, 0 - offset, offset),
                              se_bounding_box, offset, offset)))))

\* the bool that contains_alive_cells returns, or the panic of a failed
\* assert! or of unreachable!()
Answer(value) == [panicked |-> FALSE, value |-> value]

Unwound == [panicked |-> TRUE, value |-> FALSE]

\* a || b, b being evaluated only when a is false
OrElse(a, b) == IF a.panicked \/ a.value THEN a ELSE b

contains_alive_cells(s, id, upper_left, lower_right) ==
    IF ~(upper_left.x <= lower_right.x) \/ ~(upper_left.y <= lower_right.y) THEN Unwound
    ELSE
    LET offset == Pow2(level(s, id) - 2)
        node == base(s, id)
        ul == Position_quadrant(upper_left)
        lr == Position_quadrant(lower_right)
    IN  IF population(s, id) = 0 THEN Answer(FALSE)
        ELSE IF node.kind # "Interior"
        THEN Answer(\E x \in upper_left.x .. lower_right.x :
                        \E y \in upper_left.y .. lower_right.y :
                            call_get_cell(s, id, Position(x, y)))
        ELSE IF ul = "Northwest" /\ lr = "Northwest"
        THEN call_contains_alive_cells(s, node.nw,
                 Position_offset(upper_left, offset, offset),
                 Position_offset(lower_right, offset, offset))
        ELSE IF ul = "Northeast" /\ lr = "Northeast"
        THEN call_contains_alive_cells(s, node.ne,
                 Position_offset(upper_left, 0 - offset, offset),
                 Position_offset(lower_right, 0 - offset, offset))
        ELSE IF ul = "Southwest" /\ lr = "Southwest"
        THEN call_contains_alive_cells(s, node.sw,
                 Position_offset(upper_left, offset, 0 - offset),
                 Position_offset(lower_right, offset, 0 - offset))
        ELSE IF ul = "Southeast" /\ lr = "Southeast"
        THEN call_contains_alive_cells(s, node.se,
                 Position_offset(upper_left, 0 - offset, 0 - offset),
                 Position_offset(lower_right, 0 - offset, 0 - offset))
        ELSE IF ul = "Northwest" /\ lr = "Northeast"
        THEN OrElse(call_contains_alive_cells(s, node.nw,
                        Position_offset(upper_left, offset, offset),
                        Position_offset(Position(0 - 1, lower_right.y), offset, offset)),
                    call_contains_alive_cells(s, node.ne,
                        Position_offset(Position(0, upper_left.y), 0 - offset, offset),
                        Position_offset(lower_right, 0 - offset, offset)))
        ELSE IF ul = "Northwest" /\ lr = "Southwest"
        THEN OrElse(call_contains_alive_cells(s, node.nw,
                        Position_offset(upper_left, offset, offset),
                        Position_offset(Position(lower_right.x, 0 - 1), offset, offset)),
                    call_contains_alive_cells(s, node.sw,
                        Position_offset(Position(upper_left.x, 0), offset, 0 - offset),
                        Position_offset(lower_right, offset, 0 - offset)))
        ELSE IF ul = "Southwest" /\ lr = "Southeast"
        THEN OrElse(call_contains_alive_cells(s, node.sw,
                        Position_offset(upper_left, offset, 0 - offset),
                        Position_offset(Position(0 - 1, lower_right.y), offset, 0 - offset)),
                    call_contains_alive_cells(s, node.ne,
                        Position_offset(Position(0, upper_left.y), 0 - offset, 0 - offset),
                        Position_offset(lower_right, 0 - offset, 0 - offset)))
        ELSE IF ul = "Northeast" /\ lr = "Southeast"
        THEN OrElse(call_contains_alive_cells(s, node.ne,
                        Position_offset(upper_left, 0 - offset, offset),
                        Position_offset(Position(lower_right.x, 0 - 1), 0 - offset, offset)),
                    call_contains_alive_cells(s, node.se,
                        Position_offset(Position(upper_left.x, 0), 0 - offset, 0 - offset),
                        Position_offset(lower_right, 0 - offset, 0 - offset)))
        ELSE IF ul = "Northwest" /\ lr = "Southeast"
        THEN OrElse(call_contains_alive_cells(s, node.nw,
                        Position_offset(upper_left, offset, offset),
                        Position_offset(Position(0 - 1, 0 - 1), offset, offset)),
             OrElse(call_contains_alive_cells(s, node.ne,
                        Position_offset(Position(0, upper_left.y), 0 - offset, offset),
                        Position_offset(Position(lower_right.x, 0 - 1), 0 - offset, offset)),
             OrElse(call_contains_alive_cells(s, node.sw,
                        Position_offset(Position(upper_left.x, 0), offset, 0 - offset),
                        Position_offset(Position(0 - 1, lower_right.y), offset, 0 - offset)),
                    call_contains_alive_cells(s, node.se,
                        Position_offset(Position(0, 0), 0 - offset, 0 - offset),
                        Position_offset(lower_right, 0 - offset, 0 - offset)))))
        ELSE Unwound

\* ------------------------------------------------------------------------
\* Evolution of nodes (src/node/impls/evolve.rs).  Its Node::Leaf is the
\* 16x16 leaf, LevelFour, and its create_leaf is create_level_4.
\* ------------------------------------------------------------------------
Slice16(board, first_lane) ==
    { e - first_lane * 16 : e \in { f \in board : (f \div 16) \in first_lane .. first_lane + 15 } }

unwrap_leaf_ok(s, t_nw, t_ne, t_sw, t_se) ==
    /\ base(s, t_nw).kind = "LevelFour"
    /\ base(s, t_ne).kind = "LevelFour"
    /\ base(s, t_sw).kind = "LevelFour"
    /\ base(s, t_se).kind = "LevelFour"

\* the four tiles of step_level_5 and jump_level_5 from the nine overlapping
\* boards a .. i, each advanced by Advance_tile, and their combination
combine_tiles(a, b, c, d, e, f, g, h, i, Advance_tile(_)) ==
    Bind(Advance_tile(call_combine_results_u16x16(a, b, d, e)), LAMBDA w :
    Bind(Advance_tile(call_combine_results_u16x16(b, c, e, f)), LAMBDA x :
    Bind(Advance_tile(call_combine_results_u16x16(d, e, g, h)), LAMBDA y :
    Bind(Advance_tile(call_combine_results_u16x16(e, f, h, i)), LAMBDA z :
        call_combine_results_u16x16(w, x, y, z)))))

step_level_5_board(k, nw_grid, ne_grid, sw_grid, se_grid) ==
    combine_tiles(nw_grid,
                  horiz_u16x16(nw_grid, ne_grid),
                  ne_grid,
                  vert_u16x16(nw_grid, sw_grid),
                  center(nw_grid, ne_grid, sw_grid, se_grid),
                  vert_u16x16(ne_grid, se_grid),
                  sw_grid,
                  horiz_u16x16(sw_grid, se_grid),
                  se_grid,
                  LAMBDA tile : step_u16x16(tile, k))

step_level_5(s, k, t_nw, t_ne, t_sw, t_se) ==
    IF s.panicked THEN Ret(s, 0)
    ELSE IF ~unwrap_leaf_ok(s, t_nw, t_ne, t_sw, t_se) THEN Panic(s)
    ELSE call_create_level_4(Invoked(s, "step_level_5", "Interior", 5, k),
                             step_level_5_board(k, base(s, t_nw).board, base(s, t_ne).board,
                                                base(s, t_sw).board, base(s, t_se).board))

jump_level_5_board(nw_grid, ne_grid, sw_grid, se_grid) ==
    Bind(Concat16(nw_grid, sw_grid), LAMBDA left0 :
    Bind(Concat16(ne_grid, se_grid), LAMBDA right0 :
    Bind(Shl16(left0, 8) \cup Shr16(right0, 8), LAMBDA middle0 :
    Bind(jump_u16x32(left0), LAMBDA left :
    Bind(jump_u16x32(right0), LAMBDA right :
    Bind(jump_u16x32(middle0), LAMBDA middle :
        combine_tiles(Slice16(left, 0), Slice16(middle, 0), Slice16(right, 0),
                      Slice16(left, 8), Slice16(middle, 8), Slice16(right, 8),
                      Slice16(left, 16), Slice16(middle, 16), Slice16(right, 16),
                      LAMBDA tile : jump_u16x16(tile))))))))

jump_level_5(s, t_nw, t_ne, t_sw, t_se) ==
    IF s.panicked THEN Ret(s, 0)
    ELSE IF ~unwrap_leaf_ok(s, t_nw, t_ne, t_sw, t_se) THEN Panic(s)
    ELSE call_create_level_4(s, jump_level_5_board(base(s, t_nw).board, base(s, t_ne).board,
                                              base(s, t_sw).board, base(s, t_se).board))

horiz_jump(s, w, e) ==
    Bind(call_ne(s, w), LAMBDA h_nw :
    Bind(call_nw(h_nw.store, e), LAMBDA h_ne :
    Bind(call_se(h_ne.store, w), LAMBDA h_sw :
    Bind(call_sw(h_sw.store, e), LAMBDA h_se :
    Bind(call_create_interior(h_se.store,
                         NodeTemplate(h_nw.id, h_ne.id, h_sw.id, h_se.id)), LAMBDA t :
        call_jump(t.store, t.id))))))

vert_jump(s, n, so) ==
    Bind(call_sw(s, n), LAMBDA v_nw :
    Bind(call_se(v_nw.store, n), LAMBDA v_ne :
    Bind(call_nw(v_ne.store, so), LAMBDA v_sw :
    Bind(call_ne(v_sw.store, so), LAMBDA v_se :
    Bind(call_create_interior(v_se.store,
                         NodeTemplate(v_nw.id, v_ne.id, v_sw.id, v_se.id)), LAMBDA t :
        call_jump(t.store, t.id))))))

\* the second half of jump and of step: the tiles W, X, Y, Z built from the
\* nine nodes a .. i (r is the result of computing i), each advanced by
\* Advance_node, and the node of the four results
combine_nodes_north(r, a, b, c, d, e, f, Advance_node(_, _)) ==
    Bind(call_create_interior(r.store, NodeTemplate(a, b, d, e)), LAMBDA wt :
    Bind(Advance_node(wt.store, wt.id), LAMBDA w :
    Bind(call_create_interior(w.store, NodeTemplate(b, c, e, f)), LAMBDA xt :
    Bind(Advance_node(xt.store, xt.id), LAMBDA x :
        [store |-> x.store, w |-> w.id, x |-> x.id]))))

combine_nodes(r, a, b, c, d, e, f, g, h, i, Advance_node(_, _)) ==
    Bind(combine_nodes_north(r, a, b, c, d, e, f, Advance_node), LAMBDA north :
    Bind(call_create_interior(north.store, NodeTemplate(d, e, g, h)), LAMBDA yt :
    Bind(Advance_node(yt.store, yt.id), LAMBDA y :
    Bind(call_create_interior(y.store, NodeTemplate(e, f, h, i)), LAMBDA zt :
    Bind(Advance_node(zt.store, zt.id), LAMBDA z :
        call_create_interior(z.store, NodeTemplate(north.w, north.x, y.id, z.id)))))))

\* store.add_jump(self, jump); jump (nothing is added once a call has panicked)
cache_jump(r, id) == IF r.store.panicked THEN r ELSE Ret(add_jump(r.store, id, r.id), r.id)

\* store.add_step(self, step); step
cache_step(r, id) == IF r.store.panicked THEN r ELSE Ret(add_step(r.store, id, r.id), r.id)

\* the nodes a, b, c of jump, d, e, f of jump and g, h, i of jump, each with
\* the store after them
jump_north(s, node) ==
    Bind(call_jump(s, node.nw), LAMBDA a :
    Bind(call_horiz_jump(a.store, node.nw, node.ne), LAMBDA b :
    Bind(call_jump(b.store, node.ne), LAMBDA c :
        [store |-> c.store, a |-> a.id, b |-> b.id, c |-> c.id])))

jump_middle(s, id, node) ==
    Bind(call_vert_jump(s, node.nw, node.sw), LAMBDA d :
    Bind(call_center_subnode(d.store, id), LAMBDA ec :
    Bind(call_jump(ec.store, ec.id), LAMBDA e :
    Bind(call_vert_jump(e.store, node.ne, node.se), LAMBDA f :
        [store |-> f.store, d |-> d.id, e |-> e.id, f |-> f.id]))))

jump_south(s, node) ==
    Bind(call_jump(s, node.sw), LAMBDA g :
    Bind(call_horiz_jump(g.store, node.sw, node.se), LAMBDA h :
    Bind(call_jump(h.store, node.se), LAMBDA i :
        [store |-> i.store, g |-> g.id, h |-> h.id, i |-> i.id])))

\* jump after its invocation was recorded
jump_invoked(s, id) ==
    IF get_jump(s, id) # None THEN Ret(s, get_jump(s, id))
    ELSE IF base(s, id).kind # "Interior" THEN Panic(s)
    ELSE IF population(s, id) = 0 THEN call_create_empty(s, level(s, id) - 1)
    ELSE IF level(s, id) = 5
    THEN call_jump_level_5(s, base(s, id).nw, base(s, id).ne, base(s, id).sw, base(s, id).se)
    ELSE
    Bind(jump_north(s, base(s, id)), LAMBDA north :
    Bind(jump_middle(north.store, id, base(s, id)), LAMBDA middle :
    Bind(jump_south(middle.store, base(s, id)), LAMBDA south :
        cache_jump(combine_nodes(south, north.a, north.b, north.c, middle.d, middle.e,
                                 middle.f, south.g, south.h, south.i,
                                 LAMBDA t, n : call_jump(t, n)), id))))

\* jump that answers an empty node with the empty node of its own level
jump_empty_of_same_level(s, id) ==
    IF s.panicked THEN Ret(s, 0)
    ELSE IF get_jump(s, id) # None THEN Ret(s, get_jump(s, id))
    ELSE IF base(s, id).kind # "Interior" THEN Panic(s)
    ELSE IF population(s, id) = 0 THEN call_create_empty(s, level(s, id))
    ELSE IF level(s, id) = 5
    THEN call_jump_level_5(s, base(s, id).nw, base(s, id).ne, base(s, id).sw, base(s, id).se)
    ELSE
    Bind(base(s, id), LAMBDA node :
    Bind(call_jump(s, node.nw), LAMBDA a :
    Bind(call_horiz_jump(a.store, node.nw, node.ne), LAMBDA b :
    Bind(call_jump(b.store, node.ne), LAMBDA c :
    Bind(call_vert_jump(c.store, node.nw, node.sw), LAMBDA d :
    Bind(call_center_subnode(d.store, id), LAMBDA ec :
    Bind(call_jump(ec.store, ec.id), LAMBDA e :
    Bind(call_vert_jump(e.store, node.ne, node.se), LAMBDA f :
    Bind(call_jump(f.store, node.sw), LAMBDA g :
    Bind(call_horiz_jump(g.store, node.sw, node.se), LAMBDA h :
    Bind(call_jump(h.store, node.se), LAMBDA i :
        cache_jump(combine_nodes(i, a.id, b.id, c.id, d.id, e.id, f.id, g.id, h.id, i.id,
                                 LAMBDA t, n : call_jump(t, n)), id))))))))))))

\* NodeId::jump
jump(s, id) ==
    IF s.panicked THEN Ret(s, 0)
    ELSE jump_invoked(Invoked(s, "jump", base(s, id).kind, level(s, id), step_log_2(s)), id)

\* the nine nodes a .. i of step: the centres of the quadrants, of the four
\* edges and of the node, and the store after them
step_subnodes(s, id) ==
    Bind(base(s, id), LAMBDA node :
    Bind(call_center_subnode(s, node.nw), LAMBDA a :
    Bind(call_north_subsubnode(a.store, id), LAMBDA b :
    Bind(call_center_subnode(b.store, node.ne), LAMBDA c :
    Bind(call_west_subsubnode(c.store, id), LAMBDA d :
    Bind(call_center_subnode(d.store, id), LAMBDA ec :
    Bind(call_center_subnode(ec.store, ec.id), LAMBDA e :
    Bind(call_east_subsubnode(e.store, id), LAMBDA f :
    Bind(call_center_subnode(f.store, node.sw), LAMBDA g :
    Bind(call_south_subsubnode(g.store, id), LAMBDA h :
    Bind(call_center_subnode(h.store, node.se), LAMBDA i :
        [store |-> i.store, a |-> a.id, b |-> b.id, c |-> c.id, d |-> d.id, e |-> e.id,
         f |-> f.id, g |-> g.id, h |-> h.id, i |-> i.id])))))))))))

\* step that hands every node of level 5 to step_level_5
step_invoked_level_5_first(s, id) ==
    IF get_step(s, id) # None THEN Ret(s, get_step(s, id))
    ELSE IF base(s, id).kind # "Interior" THEN Panic(s)
    ELSE IF population(s, id) = 0 THEN call_create_empty(s, level(s, id) - 1)
    ELSE IF level(s, id) = 5
    THEN cache_step(call_step_level_5(s, step_log_2(s), base(s, id).nw, base(s, id).ne,
                                 base(s, id).sw, base(s, id).se), id)
    ELSE IF step_log_2(s) = level(s, id) - 2 THEN cache_step(call_jump(s, id), id)
    ELSE
    Bind(base(s, id), LAMBDA node :
    Bind(call_center_subnode(s, node.nw), LAMBDA a :
    Bind(call_north_subsubnode(a.store, id), LAMBDA b :
    Bind(call_center_subnode(b.store, node.ne), LAMBDA c :
    Bind(call_west_subsubnode(c.store, id), LAMBDA d :
    Bind(call_center_subnode(d.store, id), LAMBDA ec :
    Bind(call_center_subnode(ec.store, ec.id), LAMBDA e :
    Bind(call_east_subsubnode(e.store, id), LAMBDA f :
    Bind(call_center_subnode(f.store, node.sw), LAMBDA g :
    Bind(call_south_subsubnode(g.store, id), LAMBDA h :
    Bind(call_center_subnode(h.store, node.se), LAMBDA i :
        cache_step(combine_nodes(i, a.id, b.id, c.id, d.id, e.id, f.id, g.id, h.id, i.id,
                                 LAMBDA t, n : call_step(t, n)), id))))))))))))

\* step after its invocation was recorded
step_invoked(s, id) ==
    IF get_step(s, id) # None THEN Ret(s, get_step(s, id))
    ELSE IF base(s, id).kind # "Interior" THEN Panic(s)
    ELSE IF step_log_2(s) = level(s, id) - 2 THEN cache_step(call_jump(s, id), id)
    ELSE IF population(s, id) = 0 THEN call_create_empty(s, level(s, id) - 1)
    ELSE IF level(s, id) = 5
    THEN cache_step(call_step_level_5(s, step_log_2(s), base(s, id).nw, base(s, id).ne,
                                 base(s, id).sw, base(s, id).se), id)
    ELSE
    Bind(step_subnodes(s, id), LAMBDA sub :
        cache_step(combine_nodes(sub, sub.a, sub.b, sub.c, sub.d, sub.e, sub.f, sub.g, sub.h,
                                 sub.i, LAMBDA t, n : call_step(t, n)), id))

\* step that never hands the node to jump
step_without_jump(s, id) ==
    IF s.panicked THEN Ret(s, 0)
    ELSE IF get_step(s, id) # None THEN Ret(s, get_step(s, id))
    ELSE IF base(s, id).kind # "Interior" THEN Panic(s)
    ELSE IF population(s, id) = 0 THEN call_create_empty(s, level(s, id) - 1)
    ELSE IF level(s, id) = 5
    THEN cache_step(call_step_level_5(s, step_log_2(s), base(s, id).nw, base(s, id).ne,
                                 base(s, id).sw, base(s, id).se), id)
    ELSE
    Bind(base(s, id), LAMBDA node :
    Bind(call_center_subnode(s, node.nw), LAMBDA a :
    Bind(call_north_subsubnode(a.store, id), LAMBDA b :
    Bind(call_center_subnode(b.store, node.ne), LAMBDA c :
    Bind(call_west_subsubnode(c.store, id), LAMBDA d :
    Bind(call_center_subnode(d.store, id), LAMBDA ec :
    Bind(call_center_subnode(ec.store, ec.id), LAMBDA e :
    Bind(call_east_subsubnode(e.store, id), LAMBDA f :
    Bind(call_center_subnode(f.store, node.sw), LAMBDA g :
    Bind(call_south_subsubnode(g.store, id), LAMBDA h :
    Bind(call_center_subnode(h.store, node.se), LAMBDA i :
        cache_step(combine_nodes(i, a.id, b.id, c.id, d.id, e.id, f.id, g.id, h.id, i.id,
                                 LAMBDA t, n : call_step(t, n)), id))))))))))))

\* NodeId::step
step(s, id) ==
    IF s.panicked THEN Ret(s, 0)
    ELSE step_invoked(Invoked(s, "step", base(s, id).kind, level(s, id), step_log_2(s)), id)

\* ------------------------------------------------------------------------
\* Life (smeagol/src/lib.rs)
\* ------------------------------------------------------------------------
\* one disjunct of the loop condition of pad: the population of a quadrant q
\* against the population of its innermost grandchild
pad_result(q, inner) ==
    [store |-> inner.store,
     differs |-> population(inner.store, q.id) # population(inner.store, inner.id)]

pad_ne(s, root_id) ==
    Bind(call_ne(s, root_id), LAMBDA q :
    Bind(call_ne(q.store, root_id), LAMBDA q2 :
    Bind(call_sw(q2.store, q2.id), LAMBDA q3 :
    Bind(call_sw(q3.store, q3.id), LAMBDA inner : pad_result(q, inner)))))

pad_nw(s, root_id) ==
    Bind(call_nw(s, root_id), LAMBDA q :
    Bind(call_nw(q.store, root_id), LAMBDA q2 :
    Bind(call_se(q2.store, q2.id), LAMBDA q3 :
    Bind(call_se(q3.store, q3.id), LAMBDA inner : pad_result(q, inner)))))

pad_se_one_level(s, root_id) ==
    Bind(call_se(s, root_id), LAMBDA q :
    Bind(call_se(q.store, root_id), LAMBDA q2 :
    Bind(call_nw(q2.store, q2.id), LAMBDA inner : pad_result(q, inner))))

pad_se(s, root_id) ==
    Bind(call_se(s, root_id), LAMBDA q :
    Bind(call_se(q.store, root_id), LAMBDA q2 :
    Bind(call_nw(q2.store, q2.id), LAMBDA q3 :
    Bind(call_nw(q3.store, q3.id), LAMBDA inner : pad_result(q, inner)))))

pad_sw(s, root_id) ==
    Bind(call_sw(s, root_id), LAMBDA q :
    Bind(call_sw(q.store, root_id), LAMBDA q2 :
    Bind(call_ne(q2.store, q2.id), LAMBDA q3 :
    Bind(call_ne(q3.store, q3.id), LAMBDA inner : pad_result(q, inner)))))

\* the loop condition of pad, short-circuit as || is
pad_condition(s, root_id) ==
    IF level(s, root_id) < 6 \/ step_log_2(s) > level(s, root_id) - 2
    THEN [store |-> s, differs |-> TRUE]
    ELSE Bind(pad_ne(s, root_id), LAMBDA c1 :
             IF c1.differs THEN c1
             ELSE Bind(pad_nw(c1.store, root_id), LAMBDA c2 :
                      IF c2.differs THEN c2
                      ELSE Bind(pad_se(c2.store, root_id), LAMBDA c3 :
                               IF c3.differs THEN c3 ELSE pad_sw(c3.store, root_id))))

\* one turn of the while loop of Life::pad on r = [store, id, done]: the
\* condition and, when it holds, the body; id is the root reached so far
pad_iteration(r) ==
    IF r.done THEN r
    ELSE Bind(pad_condition(r.store, r.id), LAMBDA cond :
             IF cond.differs
             THEN Bind(call_expand(cond.store, r.id), LAMBDA x :
                      IF x.store.panicked
                      THEN [store |-> x.store, id |-> r.id, done |-> TRUE]
                      ELSE [store |-> x.store, id |-> x.id, done |-> FALSE])
             ELSE [store |-> cond.store, id |-> r.id, done |-> TRUE])

\* n turns of the loop, split in halves to keep the evaluation shallow
RECURSIVE pad_iterations(_, _)
pad_iterations(r, n) ==
    IF n = 1 THEN pad_iteration(r)
    ELSE Bind(pad_iterations(r, n \div 2), LAMBDA half :
             pad_iterations(half, n - (n \div 2)))

\* Life::pad.  A turn that does not end the loop raises the level of the root
\* and expand panics above MAX_LEVEL, so MAX_LEVEL turns end the loop.
pad(s, root_id) ==
    Bind(pad_iterations([store |-> s, id |-> root_id, done |-> FALSE], MAX_LEVEL),
         LAMBDA r : Ret(r.store, r.id))

\* 1 << step_log_2 as u64, for the exponents below 64 that StepLogs holds
\* a step size that ignores the exponent
step_size_one(s) == 1

step_size(s) == Pow2(step_log_2(s))

\* the loop of Life::from_rle that makes the root cover the bounding box
RECURSIVE cover(_, _, _)
cover(s, root_id, alive_cells) ==
    IF \E pos \in Elements(alive_cells) :
           \/ pos.x < min_coord(s, root_id) \/ pos.x > max_coord(s, root_id)
           \/ pos.y < min_coord(s, root_id) \/ pos.y > max_coord(s, root_id)
    THEN Bind(call_expand(s, root_id), LAMBDA x : cover(x.store, x.id, alive_cells))
    ELSE Ret(s, root_id)

\* from_rle without the loop that expands the root
from_rle_in_initial_root(alive_cells) ==
    Bind(call_create_empty(Store_new, INITIAL_LEVEL), LAMBDA empty :
        IF alive_cells # <<>>
        THEN call_set_cells_alive(empty.store, empty.id, alive_cells)
        ELSE empty)

\* Life::from_rle on the alive cells of the pattern; Life::new is the same
\* without cells
from_rle(alive_cells) ==
    Bind(call_create_empty(Store_new, INITIAL_LEVEL), LAMBDA empty :
        IF alive_cells # <<>>
        THEN Bind(cover(empty.store, empty.id, alive_cells), LAMBDA covered :
                 call_set_cells_alive(covered.store, covered.id, alive_cells))
        ELSE empty)

\* Life::step without the call of pad
Life_step_without_pad(s, root_id, gen) ==
    Bind(call_step(s, root_id), LAMBDA r :
        [store |-> r.store,
         root |-> IF r.store.panicked THEN root_id ELSE r.id,
         generation |-> IF r.store.panicked THEN gen ELSE gen + step_size(r.store),
         panicked |-> r.store.panicked,
         node |-> root_id, node_store |-> s, result |-> r.id])

\* Life::step on the fields of a Life: the fields afterwards, whether the
\* call panicked, and the node that NodeId::step was applied to
Life_step(s, root_id, gen) ==
    Bind(call_pad(s, root_id), LAMBDA padded :
    Bind(call_step(padded.store, padded.id), LAMBDA r :
        [store |-> r.store,
         root |-> IF r.store.panicked THEN padded.id ELSE r.id,
         generation |-> IF r.store.panicked THEN gen ELSE gen + step_size(r.store),
         panicked |-> r.store.panicked,
         node |-> padded.id, node_store |-> padded.store, result |-> r.id]))

\* the call of f on the arguments a
Call(f, a) ==
    CASE f = "create_level_3" -> create_level_3(a[1], a[2])
      [] f = "create_level_4" -> create_level_4(a[1], a[2])
      [] f = "create_interior" -> create_interior(a[1], a[2])
      [] f = "create_empty" -> create_empty(a[1], a[2])
      [] f = "expand" -> expand(a[1], a[2])
      [] f = "nw" -> nw(a[1], a[2])
      [] f = "ne" -> ne(a[1], a[2])
      [] f = "sw" -> sw(a[1], a[2])
      [] f = "se" -> se(a[1], a[2])
      [] f = "center_subnode" -> center_subnode(a[1], a[2])
      [] f = "centered_horiz" -> centered_horiz(a[1], a[2], a[3])
      [] f = "centered_vert" -> centered_vert(a[1], a[2], a[3])
      [] f = "north_subsubnode" -> north_subsubnode(a[1], a[2])
      [] f = "south_subsubnode" -> south_subsubnode(a[1], a[2])
      [] f = "west_subsubnode" -> west_subsubnode(a[1], a[2])
      [] f = "east_subsubnode" -> east_subsubnode(a[1], a[2])
      [] f = "get_cell" -> get_cell(a[1], a[2], a[3])
      [] f = "set_cell_alive" -> set_cell_alive(a[1], a[2], a[3])
      [] f = "get_alive_cells" -> get_alive_cells(a[1], a[2])
      [] f = "set_cells_alive_recursive" -> set_cells_alive_recursive(a[1], a[2], a[3], a[4], a[5])
      [] f = "set_cells_alive" -> set_cells_alive(a[1], a[2], a[3])
      [] f = "bounding_box" -> bounding_box(a[1], a[2])
      [] f = "contains_alive_cells" -> contains_alive_cells(a[1], a[2], a[3], a[4])
      [] f = "step_level_5" -> step_level_5(a[1], a[2], a[3], a[4], a[5], a[6])
      [] f = "jump_level_5" -> jump_level_5(a[1], a[2], a[3], a[4], a[5])
      [] f = "jump" -> jump(a[1], a[2])
      [] f = "horiz_jump" -> horiz_jump(a[1], a[2], a[3])
      [] f = "vert_jump" -> vert_jump(a[1], a[2], a[3])
      [] f = "step" -> step(a[1], a[2])
      [] f = "pad" -> pad(a[1], a[2])
      [] f = "from_rle" -> from_rle(a[1])
      [] f = "Life_step" -> Life_step(a[1], a[2], a[3])
      [] f = "step_once_u16x16" -> step_once_u16x16(a[1])
      [] f = "step_once_u16x32" -> step_once_u16x32(a[1])
      [] f = "combine_results_u16x16" -> combine_results_u16x16(a[1], a[2], a[3], a[4])

\* ------------------------------------------------------------------------
\* Inputs
\* ------------------------------------------------------------------------
\* the glider of the documentation, bob$2bo$3o!
Glider ==
    << Position(1, 0), Position(2, 1), Position(0, 2), Position(1, 2), Position(2, 2) >>

\* an eight-cell pattern inside [0, 7] x [0, 7] that grows past y = 15 in
\* sixteen generations
Grower ==
    << Position(2, 7), Position(3, 6), Position(3, 7), Position(4, 6), Position(4, 7),
       Position(5, 7), Position(6, 7), Position(7, 5) >>

Patterns == { <<>>, Glider, Grower }

\* the step exponents handed to set_step_log_2: the default, the jump
\* exponents of level 5 and of level 6, and the largest exponent whose step
\* size fits a u64
StepLogs == {0, MaxStepLog - 1, MaxStepLog, MAX_LEVEL - 1}

\* the cells handed to set_cell_alive
Probes == { Position(1, 0), Position(0 - 3, 0 - 2) }

\* the lists handed to set_cells_alive: empty, one cell, a cell twice that
\* the glider holds already, cells of all four quadrants with a duplicate,
\* and the same cells in another order
CoordLists ==
    { <<>>,
      << Position(0 - 3, 0 - 2) >>,
      << Position(1, 0), Position(1, 0) >>,
      << Position(5, 0 - 9), Position(0 - 3, 0 - 2), Position(5, 0 - 9),
         Position(0 - 12, 4), Position(1, 0) >>,
      << Position(1, 0), Position(0 - 12, 4), Position(0 - 3, 0 - 2), Position(5, 0 - 9) >> }

\* the rectangles handed to contains_alive_cells, one at least for each pair
\* of quadrants that the corners of a rectangle can lie in
Rect(x1, y1, x2, y2) == [upper_left |-> Position(x1, y1), lower_right |-> Position(x2, y2)]

Rects ==
    { Rect(0 - 5, 0 - 4, 0 - 2, 0 - 1), Rect(3, 0 - 12, 7, 0 - 8),
      Rect(0 - 14, 2, 0 - 10, 6), Rect(0, 0, 2, 2), Rect(4, 3, 4, 3),
      Rect(0 - 4, 0 - 3, 6, 0 - 1), Rect(0 - 4, 0 - 3, 0 - 2, 5),
      Rect(0 - 2, 0, 3, 3), Rect(4, 0 - 10, 6, 1),
      Rect(0 - 16, 0 - 16, 15, 15), Rect(0 - 1, 0 - 1, 0, 0) }

\* the boards handed to create_level_3 and create_level_4: the cells of an
\* 8x8 and of a 16x16 square as the bits of the lanes
Board3(cells) == { (pos.y + 4) * 8 + (3 - pos.x) : pos \in cells }

Board4(cells) == { (pos.y + 8) * 16 + (7 - pos.x) : pos \in cells }

\* all cells alive, and cells in every corner of the square
Leaf3Boards ==
    { 0 .. 63,
      Board3({ Position(0 - 4, 0 - 4), Position(0 - 1, 0 - 2), Position(0, 0 - 1),
               Position(3, 0 - 4), Position(0 - 2, 1), Position(2, 3) }) }

\* all cells alive, the northwestern 8x8 corner alive, and different cells in
\* each of the four 8x8 corners
Leaf4Boards ==
    { 0 .. 255,
      Board4([x : (0 - 8) .. (0 - 1), y : (0 - 8) .. (0 - 1)]),
      Board4({ Position(0 - 8, 0 - 8), Position(0 - 1, 0 - 1), Position(0 - 3, 0 - 6),
               Position(0, 0 - 1), Position(7, 0 - 8),
               Position(0 - 1, 0), Position(0 - 8, 7), Position(0 - 5, 2), Position(0 - 4, 2),
               Position(0, 0), Position(7, 7), Position(3, 4), Position(4, 4), Position(5, 4) }) }

\* the levels handed to create_empty: below the leaves, the leaves, interior
\* levels, the highest level and one above it
EmptyLevels == {0, 2, 3, 4, 5, 7, MAX_LEVEL, MAX_LEVEL + 1}

\* the step exponents that Life::pad has padded the root for: the default,
\* for which the root has level 6, and the highest one that pad finds a
\* level for, MAX_LEVEL
PaddedFor == {0, MAX_LEVEL - 2}

\* the decomposers of region.rs
Decomposers ==
    { "nw", "ne", "sw", "se", "center_subnode", "north_subsubnode", "south_subsubnode",
      "west_subsubnode", "east_subsubnode" }

\* ------------------------------------------------------------------------
\* State
\* ------------------------------------------------------------------------
\* root, store, generation: the fields of Life
\* status: "ok", or "panicked" once a call has panicked
\* last:   the last operation, what it was applied to and what it returned
\* ops, sets: the number of operations and of set_cell_alive calls so far
\* taken:  the step exponents of the Life::step calls that have returned
VARIABLES root, store, generation, status, last, ops, sets, taken

vars == <<root, store, generation, status, last, ops, sets, taken>>

Last(op, k, pos, node, node_store, result) ==
    [op |-> op, k |-> k, pos |-> pos,
     pre_root |-> root, pre_store |-> store, pre_generation |-> generation,
     node |-> node, node_store |-> node_store, result |-> result]

Init ==
    \E alive_cells \in Patterns :
        \E life \in {call_from_rle(alive_cells)} :
            /\ root = life.id
            /\ store = life.store
            /\ generation = 0
            /\ status = "ok"
            /\ last = [op |-> "new", k |-> 0, pos |-> Position(0, 0),
                       pre_root |-> life.id, pre_store |-> life.store, pre_generation |-> 0,
                       node |-> life.id, node_store |-> life.store, result |-> life.id]
            /\ ops = 0
            /\ sets = 0
            /\ taken = <<>>

\* Life::set_step_log_2
SetStepLog2(k) ==
    /\ status = "ok"
    /\ ops < MaxOps
    /\ store' = set_step_log_2(store, k)
    /\ last' = Last("set_step_log_2", k, Position(0, 0), root, store, root)
    /\ ops' = ops + 1
    /\ UNCHANGED <<root, generation, status, sets, taken>>

\* Life::step
Step ==
    /\ status = "ok"
    /\ ops < MaxOps
    /\ \E r \in {call_Life_step(store, root, generation)} :
           /\ store' = r.store
           /\ root' = r.root
           /\ generation' = r.generation
           /\ status' = IF r.panicked THEN "panicked" ELSE "ok"
           /\ last' = Last("step", step_log_2(store), Position(0, 0),
                           r.node, r.node_store, r.result)
           /\ taken' = IF r.panicked THEN taken ELSE Append(taken, step_log_2(store))
    /\ ops' = ops + 1
    /\ UNCHANGED sets

\* NodeId::set_cell_alive on the root, for a position inside the root
SetCellAlive(pos) ==
    /\ status = "ok"
    /\ ops < MaxOps
    /\ sets < MaxSets
    /\ pos.x >= min_coord(store, root) /\ pos.x <= max_coord(store, root)
    /\ pos.y >= min_coord(store, root) /\ pos.y <= max_coord(store, root)
    /\ \E r \in {call_set_cell_alive(store, root, pos)} :
           /\ store' = r.store
           /\ root' = r.id
           /\ last' = Last("set_cell_alive", step_log_2(store), pos, root, store, r.id)
    /\ ops' = ops + 1
    /\ sets' = sets + 1
    /\ UNCHANGED <<generation, status, taken>>

\* NodeId::step on the root, for a step exponent the level of the root allows
NodeStep ==
    /\ status = "ok"
    /\ ops < MaxOps
    /\ step_log_2(store) <= level(store, root) - 2
    /\ \E r \in {call_step(store, root)} :
           /\ store' = r.store
           /\ last' = Last("node_step", step_log_2(store), Position(0, 0), root, store, r.id)
           /\ status' = IF r.store.panicked THEN "panicked" ELSE "ok"
    /\ ops' = ops + 1
    /\ UNCHANGED <<root, generation, sets, taken>>

\* NodeId::jump on the root
NodeJump ==
    /\ status = "ok"
    /\ ops < MaxOps
    /\ \E r \in {call_jump(store, root)} :
           /\ store' = r.store
           /\ last' = Last("node_jump", step_log_2(store), Position(0, 0), root, store, r.id)
           /\ status' = IF r.store.panicked THEN "panicked" ELSE "ok"
    /\ ops' = ops + 1
    /\ UNCHANGED <<root, generation, sets, taken>>

Next ==
    \/ \E k \in StepLogs : SetStepLog2(k)
    \/ Step
    \/ \E pos \in Probes : SetCellAlive(pos)
    \/ NodeStep
    \/ NodeJump

Spec == Init /\ [][Next]_vars

\* ------------------------------------------------------------------------
\* Operations on nodes: the methods of NodeId applied to the root or to the
\* node that the last call returned
\* ------------------------------------------------------------------------
\* arg is the argument of the call next to the node and answer the bool of
\* contains_alive_cells
LastNode(op, arg, node, result, answer) ==
    [op |-> op, k |-> step_log_2(store), pos |-> Position(0, 0),
     pre_root |-> root, pre_store |-> store, pre_generation |-> generation,
     node |-> node, node_store |-> store, result |-> result,
     arg |-> arg, answer |-> answer]

InRange(s, id, pos) ==
    /\ pos.x >= min_coord(s, id) /\ pos.x <= max_coord(s, id)
    /\ pos.y >= min_coord(s, id) /\ pos.y <= max_coord(s, id)

\* the root and the node of the last call's result
Targets == {root} \cup (IF last.result \in 0 .. Len(store.nodes) - 1 THEN {last.result} ELSE {})

\* NodeId::set_cells_alive on the root, for positions inside the root
SetCellsAlive(coords) ==
    /\ status = "ok"
    /\ ops < MaxNodeOps
    /\ \A pos \in Elements(coords) : InRange(store, root, pos)
    /\ \E r \in {call_set_cells_alive(store, root, coords)} :
           /\ store' = r.store
           /\ root' = r.id
           /\ last' = LastNode("set_cells_alive", coords, root, r.id, FALSE)
    /\ ops' = ops + 1
    /\ UNCHANGED <<generation, status, sets, taken>>

\* NodeId::contains_alive_cells on the root, for a rectangle inside the root
ContainsAliveCells(rect) ==
    /\ status = "ok"
    /\ ops < MaxNodeOps
    /\ InRange(store, root, rect.upper_left) /\ InRange(store, root, rect.lower_right)
    /\ \E r \in {call_contains_alive_cells(store, root, rect.upper_left, rect.lower_right)} :
           /\ status' = IF r.panicked THEN "panicked" ELSE "ok"
           /\ last' = LastNode("contains_alive_cells", rect, root, root, r.value)
    /\ ops' = ops + 1
    /\ UNCHANGED <<root, store, generation, sets, taken>>

\* NodeId::bounding_box on a node of level 4 or more
BoundingBoxOf ==
    /\ status = "ok"
    /\ ops < MaxNodeOps
    /\ \E n \in Targets :
           /\ base(store, n).kind # "LevelThree"
           /\ last' = LastNode("bounding_box", 0, n, n, call_bounding_box(store, n))
    /\ ops' = ops + 1
    /\ UNCHANGED <<root, store, generation, status, sets, taken>>

\* NodeId::expand on the root
Expand ==
    /\ status = "ok"
    /\ ops < MaxNodeOps
    /\ level(store, root) < MaxExpandLevel
    /\ \E r \in {call_expand(store, root)} :
           /\ store' = r.store
           /\ root' = IF r.store.panicked THEN root ELSE r.id
           /\ status' = IF r.store.panicked THEN "panicked" ELSE "ok"
           /\ last' = LastNode("expand", 0, root, r.id, FALSE)
    /\ ops' = ops + 1
    /\ UNCHANGED <<generation, sets, taken>>

\* the decomposer of the name d
decompose(s, id, d) ==
    CASE d = "nw" -> call_nw(s, id)
      [] d = "ne" -> call_ne(s, id)
      [] d = "sw" -> call_sw(s, id)
      [] d = "se" -> call_se(s, id)
      [] d = "center_subnode" -> call_center_subnode(s, id)
      [] d = "north_subsubnode" -> call_north_subsubnode(s, id)
      [] d = "south_subsubnode" -> call_south_subsubnode(s, id)
      [] d = "west_subsubnode" -> call_west_subsubnode(s, id)
      [] d = "east_subsubnode" -> call_east_subsubnode(s, id)

\* a decomposer on the root or on the node that the last call returned
Decompose(d) ==
    /\ status = "ok"
    /\ ops < MaxNodeOps
    /\ \E n \in Targets :
           \E r \in {decompose(store, n, d)} :
               /\ store' = r.store
               /\ status' = IF r.store.panicked THEN "panicked" ELSE "ok"
               /\ last' = LastNode("decompose", d, n, r.id, FALSE)
    /\ ops' = ops + 1
    /\ UNCHANGED <<root, generation, sets, taken>>

\* NodeId::set_cell_alive, NodeId::step and NodeId::jump on the root, counted
\* with the operations on nodes
SetCellAliveOnNode(pos) == ops < MaxNodeOps /\ SetCellAlive(pos)

StepOnNode == ops < MaxNodeOps /\ NodeStep

JumpOnNode == ops < MaxNodeOps /\ NodeJump

NodeNext ==
    \/ \E coords \in CoordLists : SetCellsAlive(coords)
    \/ \E rect \in Rects : ContainsAliveCells(rect)
    \/ BoundingBoxOf
    \/ Expand
    \/ \E d \in Decomposers : Decompose(d)
    \/ \E pos \in Probes : SetCellAliveOnNode(pos)
    \/ StepOnNode
    \/ JumpOnNode

NodeSpec == Init /\ [][NodeNext]_vars

\* ------------------------------------------------------------------------
\* Construction from alive cells
\* ------------------------------------------------------------------------

\* the coordinates of the cells of a pattern: inside the initial level-5 root,
\* on its border, and outside it by one and by several levels
RleCoords ==
    { Position(0, 0), Position(1, 0), Position(0, 2), Position(15, 15),
      Position(16, 3), Position(3, 16), Position(40, 40), Position(100, 7),
      Position(60, 60), Position(127, 2) }

MaxRleLen == 2

\* the lists of alive cells handed to from_rle: every list of up to MaxRleLen
\* coordinates, in every order and with duplicates, and two longer ones
RleLists ==
    UNION { [1 .. n -> RleCoords] : n \in 0 .. MaxRleLen }
        \cup { Glider,
               << Position(40, 40), Position(1, 0), Position(16, 3), Position(1, 0),
                  Position(0, 0), Position(40, 40), Position(3, 16) >> }

\* Life::new
RleInit ==
    \E life \in {call_from_rle(<<>>)} :
        /\ root = life.id
        /\ store = life.store
        /\ generation = 0
        /\ status = "ok"
        /\ last = [op |-> "new", k |-> 0, pos |-> Position(0, 0),
                   pre_root |-> life.id, pre_store |-> life.store, pre_generation |-> 0,
                   node |-> life.id, node_store |-> life.store, result |-> life.id]
        /\ ops = 0
        /\ sets = 0
        /\ taken = <<>>

\* Life::from_rle on a list of alive cells
FromRle(alive_cells) ==
    /\ last.op = "new"
    /\ \E life \in {call_from_rle(alive_cells)} :
           /\ root' = life.id
           /\ store' = life.store
           /\ generation' = 0
           /\ status' = IF life.store.panicked THEN "panicked" ELSE "ok"
           /\ last' = LastNode("from_rle", alive_cells, root, life.id, FALSE)
    /\ ops' = ops + 1
    /\ UNCHANGED <<sets, taken>>

RleNext == \E alive_cells \in RleLists : FromRle(alive_cells)

RleSpec == RleInit /\ [][RleNext]_vars

\* ------------------------------------------------------------------------
\* Oscillators (tests/oscillators.rs)
\* ------------------------------------------------------------------------

\* a block that pad has to expand a level-5 root twice for, a blinker that
\* lies across the four leaves of the south-eastern quadrant of a level-6
\* root, and a blinker inside the centre of a level-5 root
Block ==
    << Position(7, 7), Position(8, 7), Position(7, 8), Position(8, 8) >>

Blinker ==
    << Position(15, 16), Position(16, 16), Position(17, 16) >>

SmallBlinker ==
    << Position(1, 0), Position(1, 1), Position(1, 2) >>

Oscillators == { Block, Blinker, SmallBlinker }

\* the step exponents of the oscillator tests: steps of 1, 2 and 4 generations
OscStepLogs == {0, 1, 2}

\* Life::from_rle_pattern
OscInit ==
    \E alive_cells \in Oscillators :
        \E life \in {call_from_rle(alive_cells)} :
            /\ root = life.id
            /\ store = life.store
            /\ generation = 0
            /\ status = "ok"
            /\ last = [op |-> "new", k |-> 0, pos |-> Position(0, 0),
                       pre_root |-> life.id, pre_store |-> life.store, pre_generation |-> 0,
                       node |-> life.id, node_store |-> life.store, result |-> life.id]
            /\ ops = 0
            /\ sets = 0
            /\ taken = <<>>

OscNext ==
    \/ \E k \in OscStepLogs : SetStepLog2(k)
    \/ Step
    \/ \E pos \in Probes : SetCellAlive(pos)
    \/ Expand

OscSpec == OscInit /\ [][OscNext]_vars

\* ------------------------------------------------------------------------
\* The bit-sliced neighbour counter (CountsU16x16, CountsU16x32) and the
\* kernels step_once_u16x16 and step_once_u16x32 built on it
\* ------------------------------------------------------------------------

\* the bit positions that the boards handed to Counts::add are drawn over:
\* one in the first lane and one in a lane that only u16x32 has
CounterBits == {5, 300}

\* step_once adds eight boards of neighbours
NeighborBoards == 8

\* a lane-and-bit rectangle of a bit board
LaneRect(lanes, bits) == { l * 16 + b : l \in lanes, b \in bits }

\* boards of sixteen lanes for step_once_u16x16: all set, a 3x3 square, a
\* 4x4 square touching the first lane and bit 15, a blinker across the
\* wrap of the lanes, a 3x3 square without its centre
KernelBoards16 ==
    { Bits16x16,
      LaneRect(4 .. 6, 7 .. 9),
      LaneRect(0 .. 3, 12 .. 15),
      LaneRect({15, 0, 1}, {0}),
      LaneRect(4 .. 6, 7 .. 9) \ LaneRect({5}, {8}) }

\* boards of thirty-two lanes for step_once_u16x32
KernelBoards32 ==
    { Bits16x32,
      LaneRect(15 .. 17, 7 .. 9),
      LaneRect(28 .. 31, 0 .. 3),
      LaneRect({31, 0, 1}, {15}),
      LaneRect(15 .. 17, 0 .. 2) \ LaneRect({16}, {1}) }

\* CountsU16x16::new()
KernelInit ==
    /\ root = None
    /\ store = Store_new
    /\ generation = 0
    /\ status = "ok"
    /\ last = [op |-> "Counts_new", counts |-> Counts_new, added |-> <<>>,
               board |-> {}, lanes |-> 16, result |-> {}]
    /\ ops = 0
    /\ sets = 0
    /\ taken = <<>>

\* neighbors.add(board of neighbours)
CountsAdd(neighbors) ==
    /\ last.op \in {"Counts_new", "Counts_add"}
    /\ Len(last.added) < NeighborBoards
    /\ last' = [last EXCEPT !.op = "Counts_add",
                            !.counts = Counts_add(last.counts, neighbors),
                            !.added = Append(last.added, neighbors)]
    /\ ops' = ops + 1
    /\ UNCHANGED <<root, store, generation, status, sets, taken>>

\* step_once_u16x16(board)
StepOnce16(board) ==
    /\ last.op = "Counts_new"
    /\ last' = [last EXCEPT !.op = "step_once", !.board = board, !.lanes = 16,
                            !.result = call_step_once_u16x16(board)]
    /\ ops' = ops + 1
    /\ UNCHANGED <<root, store, generation, status, sets, taken>>

\* step_once_u16x32(board)
StepOnce32(board) ==
    /\ last.op = "Counts_new"
    /\ last' = [last EXCEPT !.op = "step_once", !.board = board, !.lanes = 32,
                            !.result = call_step_once_u16x32(board)]
    /\ ops' = ops + 1
    /\ UNCHANGED <<root, store, generation, status, sets, taken>>

KernelNext ==
    \/ \E neighbors \in SUBSET CounterBits : CountsAdd(neighbors)
    \/ \E board \in KernelBoards16 : StepOnce16(board)
    \/ \E board \in KernelBoards32 : StepOnce32(board)

KernelSpec == KernelInit /\ [][KernelNext]_vars

\* ------------------------------------------------------------------------
\* The constructors of the store, applied to the root that Life::pad has
\* made and to the node that the last call returned
\* ------------------------------------------------------------------------
StoreInit ==
    \E alive_cells \in Patterns, k \in PaddedFor :
        \E life \in {call_from_rle(alive_cells)} :
            \E padded \in {call_pad(set_step_log_2(life.store, k), life.id)} :
                /\ root = padded.id
                /\ store = padded.store
                /\ generation = 0
                /\ status = "ok"
                /\ last = [op |-> "new", k |-> k, pos |-> Position(0, 0),
                           pre_root |-> padded.id, pre_store |-> padded.store,
                           pre_generation |-> 0, node |-> padded.id,
                           node_store |-> padded.store, result |-> padded.id,
                           arg |-> 0, answer |-> FALSE]
                /\ ops = 0
                /\ sets = 0
                /\ taken = <<>>

\* Store::create_empty
CreateEmpty(lvl) ==
    /\ status = "ok"
    /\ ops < MaxStoreOps
    /\ \E r \in {call_create_empty(store, lvl)} :
           /\ store' = r.store
           /\ status' = IF r.store.panicked THEN "panicked" ELSE "ok"
           /\ last' = LastNode("create_empty", lvl, root, r.id, FALSE)
    /\ ops' = ops + 1
    /\ UNCHANGED <<root, generation, sets, taken>>

\* Store::create_interior on nodes of the store
CreateInterior ==
    /\ status = "ok"
    /\ ops < MaxStoreOps
    /\ \E template \in [nw : Targets, ne : Targets, sw : Targets, se : Targets] :
           \E r \in {call_create_interior(store, template)} :
               /\ store' = r.store
               /\ status' = IF r.store.panicked THEN "panicked" ELSE "ok"
               /\ last' = LastNode("create_interior", template, root, r.id, FALSE)
    /\ ops' = ops + 1
    /\ UNCHANGED <<root, generation, sets, taken>>

\* NodeId::expand on a node of the store
ExpandNode ==
    /\ status = "ok"
    /\ ops < MaxStoreOps
    /\ \E n \in Targets :
           \E r \in {call_expand(store, n)} :
               /\ store' = r.store
               /\ status' = IF r.store.panicked THEN "panicked" ELSE "ok"
               /\ last' = LastNode("expand", 0, n, r.id, FALSE)
    /\ ops' = ops + 1
    /\ UNCHANGED <<root, generation, sets, taken>>

\* Store::create_level_3
CreateLevel3(board) ==
    /\ status = "ok"
    /\ ops < MaxStoreOps
    /\ \E r \in {call_create_level_3(store, board)} :
           /\ store' = r.store
           /\ last' = LastNode("create_level_3", board, root, r.id, FALSE)
    /\ ops' = ops + 1
    /\ UNCHANGED <<root, generation, status, sets, taken>>

\* Store::create_level_4
CreateLevel4(board) ==
    /\ status = "ok"
    /\ ops < MaxStoreOps
    /\ \E r \in {call_create_level_4(store, board)} :
           /\ store' = r.store
           /\ last' = LastNode("create_level_4", board, root, r.id, FALSE)
    /\ ops' = ops + 1
    /\ UNCHANGED <<root, generation, status, sets, taken>>

\* create_interior of the four quadrants nw, ne, sw and se of a level-4 node
reassemble(s, id) ==
    Bind(call_nw(s, id), LAMBDA q_nw :
    Bind(call_ne(q_nw.store, id), LAMBDA q_ne :
    Bind(call_sw(q_ne.store, id), LAMBDA q_sw :
    Bind(call_se(q_sw.store, id), LAMBDA q_se :
    Bind(call_create_interior(q_se.store,
             NodeTemplate(q_nw.id, q_ne.id, q_sw.id, q_se.id)), LAMBDA r :
        [store |-> r.store, id |-> r.id,
         quadrants |-> NodeTemplate(q_nw.id, q_ne.id, q_sw.id, q_se.id)])))))

Reassemble ==
    /\ status = "ok"
    /\ ops < MaxStoreOps
    /\ \E n \in Targets :
           /\ base(store, n).kind = "LevelFour"
           /\ \E r \in {reassemble(store, n)} :
                  /\ store' = r.store
                  /\ status' = IF r.store.panicked THEN "panicked" ELSE "ok"
                  /\ last' = LastNode("reassemble", r.quadrants, n, r.id, FALSE)
    /\ ops' = ops + 1
    /\ UNCHANGED <<root, generation, sets, taken>>

StoreNext ==
    \/ \E board \in Leaf3Boards : CreateLevel3(board)
    \/ \E board \in Leaf4Boards : CreateLevel4(board)
    \/ Reassemble
    \/ \E lvl \in EmptyLevels : CreateEmpty(lvl)
    \/ CreateInterior
    \/ ExpandNode

StoreSpec == StoreInit /\ [][StoreNext]_vars

\* ------------------------------------------------------------------------
\* Reference semantics: B3/S23 on the unbounded grid
\* ------------------------------------------------------------------------
Neighbours(pos) ==
    { Position(pos.x + dx, pos.y + dy) : dx \in (0 - 1) .. 1, dy \in (0 - 1) .. 1 } \ {pos}

NextGeneration(cells) ==
    LET candidates == cells \cup UNION { Neighbours(pos) : pos \in cells }
    IN  { pos \in candidates :
            LET n == Cardinality(Neighbours(pos) \cap cells)
            IN  n = 3 \/ (n = 2 /\ pos \in cells) }

RECURSIVE Advance(_, _)
Advance(cells, n) ==
    IF n = 0 \/ cells = {} THEN cells ELSE Advance(NextGeneration(cells), n - 1)

\* ------------------------------------------------------------------------
\* Properties
\* ------------------------------------------------------------------------
\* the operations that return an evolved node
Completed(op) == status = "ok" /\ last.op = op

\* C1: Life.step() yields a universe whose alive cells are the alive cells
\* before the call advanced by exactly 2^k generations of B3/S23 on the
\* unbounded grid, k being the step exponent of the call.
C1_StepAdvancesExactly ==
    Completed("step") =>
        Elements(call_get_alive_cells(store, root))
            = Advance(Elements(call_get_alive_cells(last.pre_store, last.pre_root)), Pow2(last.k))

\* a step of sixteen generations on a pattern with alive cells has completed
C1_Witness ==
    /\ Completed("step")
    /\ last.k = MaxStepLog
    /\ population(last.pre_store, last.pre_root) > 0

\* C2: the ids table is a bijection between the bases of the stored nodes and
\* the indices 0 .. len(nodes) - 1 with nodes[ids[b]].base = b, and a creation
\* request for a stored base returns the id of the stored node and adds nothing.
C2_Canonical ==
    /\ DOMAIN store.ids = { store.nodes[i].base : i \in 1 .. Len(store.nodes) }
    /\ \A i \in 1 .. Len(store.nodes) :
           /\ store.ids[store.nodes[i].base] = i - 1
           /\ add_node(store, store.nodes[i]) = Ret(store, i - 1)
    /\ \A i, j \in 1 .. Len(store.nodes) :
           store.nodes[i].base = store.nodes[j].base => i = j

\* an operation has asked for nodes the store already held and for new ones
C2_Witness ==
    /\ Completed("step")
    /\ Len(store.nodes) > Len(last.pre_store.nodes)
    /\ last.result + 1 <= Len(last.pre_store.nodes)

\* the store with both caches emptied
ClearCaches(s) ==
    [s EXCEPT !.steps = [i \in 1 .. Len(s.steps) |-> None],
              !.jumps = [i \in 1 .. Len(s.jumps) |-> None]]

\* C3: every entry of the step cache is the node NodeId::step computes for
\* its node with empty caches under the current exponent, every entry of the
\* jump cache is the node an uncached NodeId::jump computes, and a step
\* returns the node an uncached step computes under the exponent of the call.
C3_MemoCoherent ==
    status = "ok" =>
        /\ \A i \in 1 .. Len(store.steps) :
               store.steps[i] # None =>
                   call_step(ClearCaches(store), i - 1).id = store.steps[i]
        /\ \A i \in 1 .. Len(store.jumps) :
               store.jumps[i] # None =>
                   call_jump(ClearCaches(store), i - 1).id = store.jumps[i]
        /\ last.op \in {"step", "node_step"} =>
               call_step(ClearCaches(last.node_store), last.node).id = last.result

\* a step under a new exponent after a step under another, with both caches
\* holding entries
C3_Witness ==
    /\ Completed("step")
    /\ population(last.node_store, last.node) > 0
    /\ Len(taken) = 2
    /\ taken[1] < taken[2]
    /\ \E i \in 1 .. Len(store.steps) : store.steps[i] # None
    /\ \E i \in 1 .. Len(store.jumps) : store.jumps[i] # None

\* C4: set_step_log_2(k) with k different from the exponent sets the exponent
\* and empties every slot of the step cache, keeping its length; with k equal
\* to the exponent it leaves the step cache alone; in both cases the jump
\* cache, the nodes and the ids table are unchanged.
C4_SetStepLog2Frame ==
    Completed("set_step_log_2") =>
        /\ store.step_log_2 = last.k
        /\ IF last.k # last.pre_store.step_log_2
           THEN /\ Len(store.steps) = Len(last.pre_store.steps)
                /\ \A i \in 1 .. Len(store.steps) : store.steps[i] = None
           ELSE store.steps = last.pre_store.steps
        /\ store.jumps = last.pre_store.jumps
        /\ store.nodes = last.pre_store.nodes
        /\ store.ids = last.pre_store.ids

\* the exponent was changed while the step cache and the jump cache held entries
C4_Witness ==
    /\ Completed("set_step_log_2")
    /\ last.k # last.pre_store.step_log_2
    /\ \E i \in 1 .. Len(last.pre_store.steps) : last.pre_store.steps[i] # None
    /\ \E i \in 1 .. Len(last.pre_store.jumps) : last.pre_store.jumps[i] # None

\* C5: whenever jump(n) returns r the jump cache holds r for n afterwards,
\* and whenever step(n) returns r the step cache holds r for n afterwards.
C5_MemoDiscipline ==
    /\ Completed("node_jump") => get_jump(store, last.node) = last.result
    /\ (Completed("node_step") \/ Completed("step")) =>
           get_step(store, last.node) = last.result

\* a step and the jump it made have returned with their result in the cache
C5_Witness ==
    /\ Completed("step")
    /\ population(last.node_store, last.node) > 0
    /\ get_step(store, last.node) = last.result
    /\ get_jump(store, last.node) = last.result

\* C6: when the exponent is the level of an Interior node less two, step
\* returns the NodeId that jump returns for the node.
C6_StepIsJump ==
    (Completed("step") \/ Completed("node_step")) =>
        (last.k = level(last.node_store, last.node) - 2 =>
            last.result = call_jump(last.node_store, last.node).id)

\* a node with alive cells was stepped at the exponent of its jump
C6_Witness ==
    /\ Completed("node_step")
    /\ last.k = level(last.node_store, last.node) - 2
    /\ population(last.node_store, last.node) > 0

\* C7: jump and step of an Interior node of level L and population 0 return a
\* node of population 0 and level L - 1, the node of create_empty(L - 1).
C7_EmptyEvolvesToEmpty ==
    (Completed("step") \/ Completed("node_step") \/ Completed("node_jump")) =>
        (population(last.node_store, last.node) = 0 =>
            /\ population(store, last.result) = 0
            /\ level(store, last.result) = level(last.node_store, last.node) - 1
            /\ call_create_empty(store, level(last.node_store, last.node) - 1)
                   = Ret(store, last.result))

\* an empty node was jumped
C7_Witness ==
    /\ Completed("node_jump")
    /\ base(last.node_store, last.node).kind = "Interior"
    /\ population(last.node_store, last.node) = 0

\* the sum of 2^k over the exponents k of a sequence
RECURSIVE SumPow2(_)
SumPow2(exponents) ==
    IF exponents = <<>> THEN 0 ELSE Pow2(Head(exponents)) + SumPow2(Tail(exponents))

\* C8: a new Life has generation 0 and step size 1; Life.step() adds exactly
\* 2^k to generation, k being the exponent at the call, and leaves the
\* exponent alone; set_step_log_2 leaves generation alone; generation is the
\* sum of 2^k over the steps taken.
C8_GenerationCounter ==
    /\ ops = 0 => generation = 0 /\ step_size(store) = 1
    /\ generation = SumPow2(taken)
    /\ Completed("step") =>
           /\ generation = last.pre_generation + Pow2(last.k)
           /\ step_log_2(store) = last.k
           /\ step_log_2(last.pre_store) = last.k
    /\ Completed("set_step_log_2") => generation = last.pre_generation

\* two steps under different exponents were taken
C8_Witness ==
    /\ Completed("step")
    /\ Len(taken) = 2
    /\ taken[1] # taken[2]
    /\ generation = Pow2(taken[1]) + Pow2(taken[2])

\* C9: for every exponent k below 64, set_step_log_2(k) followed by step()
\* completes normally, with a root of level at most MAX_LEVEL and at least
\* k + 2 handed to NodeId::step, and generation advanced by 2^k.
C9_StepCompletes ==
    last.op = "step" =>
        /\ status = "ok"
        /\ level(last.node_store, last.node) <= MAX_LEVEL
        /\ last.k <= level(last.node_store, last.node) - 2
        /\ generation = last.pre_generation + Pow2(last.k)

\* the positions inside a node
Positions(s, id) ==
    [x : min_coord(s, id) .. max_coord(s, id), y : min_coord(s, id) .. max_coord(s, id)]

\* C10: for a position p inside a node n, set_cell_alive(n, p) has the level
\* of n, p is alive in it, every other position inside is as in n, and its
\* population is that of n, plus one if p was dead in n.
C10_SetCellAlive ==
    Completed("set_cell_alive") =>
        /\ level(store, root) = level(last.pre_store, last.pre_root)
        /\ call_get_cell(store, root, last.pos)
        /\ \A q \in Positions(last.pre_store, last.pre_root) \ {last.pos} :
               call_get_cell(store, root, q) = call_get_cell(last.pre_store, last.pre_root, q)
        /\ population(store, root)
               = population(last.pre_store, last.pre_root)
                 + (IF call_get_cell(last.pre_store, last.pre_root, last.pos) THEN 0 ELSE 1)

\* a dead cell of a node with alive cells was set alive
C10_Witness ==
    /\ Completed("set_cell_alive")
    /\ population(last.pre_store, last.pre_root) > 0
    /\ ~call_get_cell(last.pre_store, last.pre_root, last.pos)
    /\ last.pos \in Positions(last.pre_store, last.pre_root)

\* set_cell_alive applied to node id for each position of coords in turn
RECURSIVE SetEach(_, _, _)
SetEach(s, id, coords) ==
    IF coords = <<>> THEN Ret(s, id)
    ELSE LET r == call_set_cell_alive(s, id, Head(coords))
         IN  SetEach(r.store, r.id, Tail(coords))

Inside(pos, upper_left, lower_right) ==
    /\ upper_left.x <= pos.x /\ pos.x <= lower_right.x
    /\ upper_left.y <= pos.y /\ pos.y <= lower_right.y

\* C12: contains_alive_cells(n, upper_left, lower_right), for a rectangle
\* with upper_left <= lower_right on both axes inside the node, returns true
\* exactly when a cell of the rectangle is alive in n, whichever quadrants the
\* two corners lie in.
C12_ContainsAliveCells ==
    last.op = "contains_alive_cells" =>
        /\ status = "ok"
        /\ last.answer
               = (\E pos \in Elements(call_get_alive_cells(store, last.node)) :
                      Inside(pos, last.arg.upper_left, last.arg.lower_right))

\* a rectangle over the two southern quadrants of a node whose alive cells
\* inside the rectangle are all in the southeastern quadrant
C12_Witness ==
    /\ Completed("contains_alive_cells")
    /\ Position_quadrant(last.arg.upper_left) = "Southwest"
    /\ Position_quadrant(last.arg.lower_right) = "Southeast"
    /\ \E pos \in Elements(call_get_alive_cells(store, last.node)) :
           Inside(pos, last.arg.upper_left, last.arg.lower_right)

\* the rectangles over the other eight pairs of quadrants are answered
\* as C12 says
C12_OtherQuadrantPairs ==
    (/\ last.op = "contains_alive_cells"
     /\ ~(/\ Position_quadrant(last.arg.upper_left) = "Southwest"
          /\ Position_quadrant(last.arg.lower_right) = "Southeast")) =>
        /\ status = "ok"
        /\ last.answer
               = (\E pos \in Elements(call_get_alive_cells(store, last.node)) :
                      Inside(pos, last.arg.upper_left, last.arg.lower_right))

\* the nodes of the store that the last call took or returned, and the root
Examined ==
    { id \in {root, last.node, last.result} : id \in 0 .. Len(store.nodes) - 1 }

\* the positions of node id that are examined
Window(s, id) ==
    LET lo == IF min_coord(s, id) < 0 - MaxCoord THEN 0 - MaxCoord ELSE min_coord(s, id)
        hi == IF max_coord(s, id) > MaxCoord - 1 THEN MaxCoord - 1 ELSE max_coord(s, id)
    IN  [x : lo .. hi, y : lo .. hi]

\* C13: get_alive_cells(n) lists exactly the alive cells of n, each once:
\* the list has no duplicates, its length is population(n), and a position is
\* in it exactly when get_cell(n, p) is Alive.
C13_GetAliveCells ==
    status = "ok" =>
        \A id \in Examined :
            LET cells == call_get_alive_cells(store, id)
            IN  /\ Cardinality(Elements(cells)) = Len(cells)
                /\ Len(cells) = population(store, id)
                /\ \A pos \in Elements(cells) :
                       InRange(store, id, pos) /\ call_get_cell(store, id, pos)
                /\ \A pos \in Window(store, id) :
                       call_get_cell(store, id, pos) => pos \in Elements(cells)

\* the list of a node with alive cells in all four quadrants
C13_Witness ==
    /\ status = "ok"
    /\ base(store, root).kind = "Interior"
    /\ \A q \in {"Northwest", "Northeast", "Southwest", "Southeast"} :
           \E i \in 1 .. Len(call_get_alive_cells(store, root)) :
               Position_quadrant(call_get_alive_cells(store, root)[i]) = q
    /\ Len(call_get_alive_cells(store, root)) = 8

\* the alive cells of node id, read off the boards of its leaves
RECURSIVE Cells(_, _)
Cells(s, id) ==
    LET node == base(s, id)
    IN  IF node.kind = "LevelThree"
        THEN { Position(3 - (e % 8), (e \div 8) - 4) : e \in node.board }
        ELSE IF node.kind = "LevelFour"
        THEN { Position(7 - (e % 16), (e \div 16) - 8) : e \in node.board }
        ELSE LET offset == Pow2(level(s, id) - 2)
             IN  { Position_offset(pos, 0 - offset, 0 - offset) : pos \in Cells(s, node.nw) }
                 \cup { Position_offset(pos, offset, 0 - offset) : pos \in Cells(s, node.ne) }
                 \cup { Position_offset(pos, 0 - offset, offset) : pos \in Cells(s, node.sw) }
                 \cup { Position_offset(pos, offset, offset) : pos \in Cells(s, node.se) }

NodeIds(s) == 0 .. Len(s.nodes) - 1

\* C14: two nodes of the same level with the same alive cells are one node,
\* for the nodes that create_empty, set_cell_alive, set_cells_alive, expand,
\* step and jump make; set_cell_alive(n, p) returns n when p is alive in n.
C14_OneNodePerConfiguration ==
    status = "ok" =>
        /\ \A a, b \in NodeIds(store) :
               (level(store, a) = level(store, b) /\ Cells(store, a) = Cells(store, b))
                   => a = b
        /\ \A id \in Examined :
               Cells(store, id) = Elements(call_get_alive_cells(store, id))
        /\ (last.op = "set_cell_alive" /\ call_get_cell(last.pre_store, last.node, last.pos))
               => last.result = last.node

\* set_cell_alive of a cell that is alive already, in a store that holds
\* different nodes of one level
C14_Witness ==
    /\ Completed("set_cell_alive")
    /\ call_get_cell(last.pre_store, last.node, last.pos)
    /\ last.result = last.node
    /\ \E a, b \in NodeIds(store) :
           /\ a # b /\ level(store, a) = level(store, b)
           /\ population(store, a) = population(store, b) /\ population(store, a) > 0

\* the positions of node id
Range(s, id) ==
    [x : min_coord(s, id) .. max_coord(s, id), y : min_coord(s, id) .. max_coord(s, id)]

\* C15: expand(n) of an Interior node n of level L < 64 has level L + 1 and
\* the population of n, its center_subnode is n, and its cells are those of n
\* inside the range of n and dead outside.
C15_Expand ==
    (last.op = "expand" /\ level(last.pre_store, last.node) < MAX_LEVEL) =>
        /\ status = "ok"
        /\ level(store, last.result) = level(last.pre_store, last.node) + 1
        /\ population(store, last.result) = population(last.pre_store, last.node)
        /\ call_center_subnode(store, last.result).id = last.node
        /\ \A pos \in Range(store, last.result) :
               call_get_cell(store, last.result, pos)
                   = (InRange(last.pre_store, last.node, pos)
                      /\ call_get_cell(last.pre_store, last.node, pos))

\* expand of a node with alive cells in all four quadrants
C15_Witness ==
    /\ Completed("expand")
    /\ population(store, last.result) = 8
    /\ \A q \in {"Northwest", "Northeast", "Southwest", "Southeast"} :
           \E pos \in Cells(last.pre_store, last.node) : Position_quadrant(pos) = q

\* store t holds store s and, after it, nodes without cache entries only
Extends(t, s) ==
    /\ Len(t.nodes) >= Len(s.nodes)
    /\ SubSeq(t.nodes, 1, Len(s.nodes)) = s.nodes
    /\ SubSeq(t.steps, 1, Len(s.steps)) = s.steps
    /\ SubSeq(t.jumps, 1, Len(s.jumps)) = s.jumps
    /\ \A i \in Len(s.nodes) + 1 .. Len(t.nodes) : t.steps[i] = None /\ t.jumps[i] = None
    /\ \A b \in DOMAIN s.ids : b \in DOMAIN t.ids /\ t.ids[b] = s.ids[b]
    /\ t.step_log_2 = s.step_log_2

\* C16 as the specification states it: a decomposer leaves the store as it
\* was, without a node appended and with the ids table and both caches
\* unchanged.
C16_DecomposersArePure ==
    (last.op = "decompose" /\ status = "ok") => store = last.pre_store

\* C16: nw, ne, sw and se of an Interior node leave the store as it was.  The
\* quadrants of a level-4 leaf, center_subnode and the four subsubnodes may
\* intern the node they return and the nodes it is made of, as expand does;
\* they leave every node, id and cache entry of the store as it was.
C16_DecomposersOnlyIntern ==
    (last.op = "decompose" /\ status = "ok") =>
        /\ Extends(store, last.pre_store)
        /\ (/\ last.arg \in {"nw", "ne", "sw", "se"}
            /\ base(last.pre_store, last.node).kind = "Interior")
               => store = last.pre_store

\* center_subnode of a node whose centre the store did not hold
C16_Witness ==
    /\ Completed("decompose")
    /\ last.arg = "center_subnode"
    /\ Len(store.nodes) > Len(last.pre_store.nodes)
    /\ last.pre_store.ids = [b \in DOMAIN last.pre_store.ids |-> store.ids[b]]
    /\ \E b \in DOMAIN store.ids : b \notin DOMAIN last.pre_store.ids

\* C17: in every store the population of an Interior node is the sum of the
\* populations of its four children and the population of a leaf is the
\* number of 1 bits of its board; so population(n) is the number of alive
\* cells of n.
C17_Population ==
    \A id \in NodeIds(store) :
        /\ base(store, id).kind = "Interior" =>
               population(store, id)
                   = population(store, base(store, id).nw) + population(store, base(store, id).ne)
                     + population(store, base(store, id).sw) + population(store, base(store, id).se)
        /\ base(store, id).kind # "Interior" =>
               /\ population(store, id) = Cardinality(base(store, id).board)
               /\ base(store, id).board
                      \subseteq 0 .. (IF base(store, id).kind = "LevelThree" THEN 63 ELSE 255)
        /\ population(store, id) = Cardinality(Cells(store, id))
        /\ id \in Examined =>
               { pos \in Window(store, id) : call_get_cell(store, id, pos) }
                   = Cells(store, id) \cap Window(store, id)

\* a store with an Interior node of level 6 whose eight alive cells lie in
\* all four quadrants, and a leaf of level 3 with alive cells
C17_Witness ==
    /\ status = "ok"
    /\ level(store, root) = 6 /\ population(store, root) = 8
    /\ \A q \in {"Northwest", "Northeast", "Southwest", "Southeast"} :
           \E pos \in Cells(store, root) : Position_quadrant(pos) = q
    /\ \E id \in NodeIds(store) : level(store, id) = 4 /\ population(store, id) = 5

SameStore(t, s) == [t EXCEPT !.panicked = FALSE] = [s EXCEPT !.panicked = FALSE]

\* the levels of the four children of a template
ChildLevels(s, template) ==
    { level(s, template.nw), level(s, template.ne), level(s, template.sw),
      level(s, template.se) }

\* C19: create_interior with four children that are not all of one level
\* panics and adds no node to the store, whichever child differs.
C19_ChildLevelMismatchPanics ==
    (/\ last.op = "create_interior"
     /\ Cardinality(ChildLevels(last.pre_store, last.arg)) > 1) =>
        /\ status = "panicked"
        /\ SameStore(store, last.pre_store)

\* create_interior that has returned a node for a northwestern child of
\* another level than the three other children
C19_Witness ==
    /\ Completed("create_interior")
    /\ level(last.pre_store, last.arg.nw) # level(last.pre_store, last.arg.ne)
    /\ Len(store.nodes) = Len(last.pre_store.nodes) + 1
    /\ base(store, last.result).nw = last.arg.nw

\* a northeastern, southwestern or southeastern child of another level than
\* the other children makes create_interior panic, as C19 says
C19_OtherChildren ==
    (/\ last.op = "create_interior"
     /\ Cardinality({ level(last.pre_store, last.arg.ne), level(last.pre_store, last.arg.sw),
                      level(last.pre_store, last.arg.se) }) > 1) =>
        /\ status = "panicked"
        /\ SameStore(store, last.pre_store)

\* the calls that ask for a level below 3 or above MAX_LEVEL
InvalidLevelCall ==
    \/ last.op = "create_empty" /\ last.arg < 3
    \/ /\ last.op = "create_interior"
       /\ ChildLevels(last.pre_store, last.arg) = {MAX_LEVEL}
    \/ last.op = "expand" /\ level(last.pre_store, last.node) = MAX_LEVEL

\* C20: create_empty of a level below 3 panics, create_interior whose result
\* would have a level above 64 panics and stores no node, and so expand of a
\* node of level 64 fails, yields no node and leaves the store as it was.
C20_InvalidLevelIsFatal ==
    InvalidLevelCall =>
        /\ status = "panicked"
        /\ SameStore(store, last.pre_store)

\* expand of a root of level 64 with alive cells has panicked
C20_Witness ==
    /\ last.op = "expand"
    /\ status = "panicked"
    /\ level(last.pre_store, last.node) = MAX_LEVEL
    /\ population(last.pre_store, last.node) > 0

\* the calls of C20 panic, and create_empty and create_interior leave the
\* store as it was
C20_InvalidLevelPanics ==
    InvalidLevelCall =>
        /\ status = "panicked"
        /\ last.op # "expand" => SameStore(store, last.pre_store)
        /\ \A i \in 1 .. Len(store.nodes) : store.nodes[i].level \in 3 .. MAX_LEVEL

\* the cells moved by (dx, dy)
Shifted(cells, dx, dy) == { Position_offset(pos, dx, dy) : pos \in cells }

\* the cells of the four 8x8 corners of a 16x16 square, each in the
\* coordinates of the corner
Corner(cells, dx, dy) ==
    Shifted({ pos \in cells : /\ (pos.x < 0) = (dx < 0)
                              /\ (pos.y < 0) = (dy < 0) }, 0 - dx, 0 - dy)

LevelThreeChildren(s, template) ==
    \A child \in { template.nw, template.ne, template.sw, template.se } :
        base(s, child).kind = "LevelThree"

\* C21: create_interior of four LevelThree children returns the node that
\* create_level_4 returns for the 16x16 board whose upper rows are the rows of
\* nw|ne and whose lower rows are the rows of sw|se; no Interior node has
\* level 4; and nw, ne, sw and se of a LevelFour node m are the level-3 nodes
\* of its four 8x8 corners, so that create_interior of them is m.
C21_LeafPromotion ==
    /\ \A id \in NodeIds(store) :
           base(store, id).kind = "Interior" => level(store, id) >= 5
    /\ (last.op = "create_interior" /\ LevelThreeChildren(last.pre_store, last.arg)) =>
           /\ status = "ok"
           /\ base(store, last.result).kind = "LevelFour"
           /\ Cells(store, last.result)
                  = Shifted(Cells(store, last.arg.nw), 0 - 4, 0 - 4)
                        \cup Shifted(Cells(store, last.arg.ne), 4, 0 - 4)
                        \cup Shifted(Cells(store, last.arg.sw), 0 - 4, 4)
                        \cup Shifted(Cells(store, last.arg.se), 4, 4)
           /\ call_create_level_4(store, Board4(Cells(store, last.result)))
                  = Ret(store, last.result)
    /\ last.op = "reassemble" =>
           /\ status = "ok"
           /\ LevelThreeChildren(store, last.arg)
           /\ Cells(store, last.arg.nw) = Corner(Cells(store, last.node), 0 - 4, 0 - 4)
           /\ Cells(store, last.arg.ne) = Corner(Cells(store, last.node), 4, 0 - 4)
           /\ Cells(store, last.arg.sw) = Corner(Cells(store, last.node), 0 - 4, 4)
           /\ Cells(store, last.arg.se) = Corner(Cells(store, last.node), 4, 4)
           /\ last.result = last.node

\* a LevelFour node with four different corners taken apart and put together
\* again
C21_Witness ==
    /\ Completed("reassemble")
    /\ last.result = last.node
    /\ Cardinality({ last.arg.nw, last.arg.ne, last.arg.sw, last.arg.se }) = 4
    /\ \A child \in { last.arg.nw, last.arg.ne, last.arg.sw, last.arg.se } :
           population(store, child) > 0

\* create_interior of four all-alive level-3 nodes is the all-alive level-4
\* node
C21_AllAlive ==
    /\ Completed("create_interior")
    /\ LevelThreeChildren(last.pre_store, last.arg)
    /\ base(store, last.result) = LevelFour(0 .. 255)

\* C22: bounding_box(n) is None exactly when population(n) = 0, and otherwise
\* the box from (min x, min y) to (max x, max y) over the alive cells of n in
\* the coordinates of n: every alive cell lies inside it and each of its four
\* sides touches an alive cell.
C22_BoundingBox ==
    last.op = "bounding_box" =>
        LET cells == Cells(store, last.node)
            answer == last.answer
        IN  /\ (answer = <<>>) <=> (population(store, last.node) = 0)
            /\ answer # <<>> =>
                   LET box == answer[1]
                   IN  /\ ~box.panicked
                       /\ \A pos \in cells :
                              /\ box.upper_left.x <= pos.x /\ pos.x <= box.lower_right.x
                              /\ box.upper_left.y <= pos.y /\ pos.y <= box.lower_right.y
                       /\ \E pos \in cells : pos.x = box.upper_left.x
                       /\ \E pos \in cells : pos.y = box.upper_left.y
                       /\ \E pos \in cells : pos.x = box.lower_right.x
                       /\ \E pos \in cells : pos.y = box.lower_right.y

\* the bounding box of an Interior node with alive cells in more than one
\* quadrant, no cell of which is a corner of the box
C22_Witness ==
    /\ Completed("bounding_box")
    /\ base(store, last.node).kind = "Interior"
    /\ last.answer # <<>>
    /\ Cardinality({ Position_quadrant(pos) : pos \in Cells(store, last.node) }) > 1
    /\ last.answer[1].upper_left \notin Cells(store, last.node)

\* the bounding box of a node without alive cells
C22_None ==
    /\ Completed("bounding_box")
    /\ last.answer = <<>>

\* C23: from_rle of any list of cell coordinates, in any order and with
\* duplicates, returns: the root covers every coordinate of the list on both
\* axes, the alive cells of the universe are the coordinates of the list, the
\* population is the number of different coordinates, and the generation is
\* 0; for the empty list the universe is empty.
C23_FromRle ==
    last.op = "from_rle" =>
        /\ status = "ok"
        /\ \A pos \in Elements(last.arg) :
               /\ min_coord(store, root) <= pos.x /\ pos.x <= max_coord(store, root)
               /\ min_coord(store, root) <= pos.y /\ pos.y <= max_coord(store, root)
               /\ call_get_cell(store, root, pos)
        /\ Elements(call_get_alive_cells(store, root)) = Elements(last.arg)
        /\ population(store, root) = Cardinality(Elements(last.arg))
        /\ generation = 0
        /\ last.arg = <<>> =>
               /\ population(store, root) = 0
               /\ call_get_alive_cells(store, root) = <<>>
               /\ level(store, root) = INITIAL_LEVEL

\* a list with a duplicate, not in the order of the coordinates, that needs
\* more than one expansion of the root
C23_Witness ==
    /\ Completed("from_rle")
    /\ Len(last.arg) > Cardinality(Elements(last.arg))
    /\ Len(last.arg) > 2
    /\ level(store, root) > INITIAL_LEVEL + 1
    /\ last.arg[1].x > last.arg[2].x

\* the empty list
C23_Empty ==
    /\ Completed("from_rle")
    /\ last.arg = <<>>
    /\ population(store, root) = 0

\* C24: in every state reached from Life::new or from_rle by set_step_log_2
\* and step calls that have returned, the root is an Interior node of a level
\* from 5 to 64, and a step returns a root one level below the padded root,
\* whose level is at least 6.
C24_RootIsInterior ==
    status = "ok" =>
        /\ base(store, root).kind = "Interior"
        /\ level(store, root) >= 5
        /\ level(store, root) <= MAX_LEVEL
        /\ last.op = "step" =>
               /\ root = last.result
               /\ level(last.node_store, last.node) >= 6
               /\ level(store, root) = level(last.node_store, last.node) - 1

\* a second step, whose padding started from the level-5 root that the first
\* step returned
C24_Witness ==
    /\ Completed("step")
    /\ Len(taken) = 2
    /\ level(last.pre_store, last.pre_root) = 5
    /\ level(last.node_store, last.node) > 6
    /\ population(store, root) > 0

\* the alive cells of a node lie in the square of half its side around the
\* origin
InCentralSquare(s, id) ==
    \A pos \in Elements(call_get_alive_cells(s, id)) :
        /\ 0 - Pow2(level(s, id) - 3) <= pos.x /\ pos.x < Pow2(level(s, id) - 3)
        /\ 0 - Pow2(level(s, id) - 3) <= pos.y /\ pos.y < Pow2(level(s, id) - 3)

\* the three conditions that end the loop of pad
Padded(s, id, k) ==
    /\ level(s, id) >= 6
    /\ k <= level(s, id) - 2
    /\ InCentralSquare(s, id)

\* C25: when pad returns, the root has a level L >= 6, step_log_2 <= L - 2,
\* and the population of each quadrant of the root is that of its innermost
\* grandchild, all alive cells lying in the square of side 2^(L-2) around the
\* origin; pad changes neither the alive cells nor the generation; and pad of
\* a root that meets the three conditions does nothing.
C25_PadPostcondition ==
    Completed("step") =>
        /\ Padded(last.node_store, last.node, last.k)
        /\ ~pad_condition(last.node_store, last.node).differs
        /\ Elements(call_get_alive_cells(last.node_store, last.node))
               = Elements(call_get_alive_cells(last.pre_store, last.pre_root))
        /\ generation = last.pre_generation + Pow2(last.k)
        /\ call_pad(last.node_store, last.node) = Ret(last.node_store, last.node)

\* pad has expanded a level-5 root twice, the second time for its alive cells
\* and not for the step exponent
C25_Witness ==
    /\ Completed("step")
    /\ level(last.pre_store, last.pre_root) = 5
    /\ level(last.node_store, last.node) = 7
    /\ last.k < 4
    /\ population(last.node_store, last.node) > 0

\* alive cells next to the four sides and to two corners of the square of
\* half side h, all of them outside it
Outside(h) ==
    { Position(h, 0 - 1), Position(h, 0), Position(h, 1),
      Position(0 - h - 1, 0 - 1), Position(0 - h - 1, 0), Position(0 - h - 1, 1),
      Position(0 - 1, h), Position(0, h), Position(1, h),
      Position(0 - 1, 0 - h - 1), Position(0, 0 - h - 1), Position(1, 0 - h - 1),
      Position(h, h), Position(h - 1, h), Position(h, h - 1),
      Position(0 - h - 1, 0 - h - 1), Position(0 - h, 0 - h - 1), Position(0 - h - 1, 0 - h) }

\* the cells of the square of half side h around the origin
Central(cells, h) ==
    { pos \in cells : /\ 0 - h <= pos.x /\ pos.x < h
                      /\ 0 - h <= pos.y /\ pos.y < h }

\* C26: jump of an Interior node n of level L >= 5 is the node of level L - 1
\* whose cells are the central 2^(L-1) x 2^(L-1) region of n after 2^(L-2)
\* generations of B3/S23, whatever lies outside n; for L = 5 it is the central
\* 16x16 region after 8 generations.
C26_Jump ==
    Completed("node_jump") =>
        LET L == level(last.node_store, last.node)
            cells == Elements(call_get_alive_cells(last.node_store, last.node))
            jumped == Elements(call_get_alive_cells(store, last.result))
        IN  /\ level(store, last.result) = L - 1
            /\ jumped = Central(Advance(cells, Pow2(L - 2)), Pow2(L - 2))
            /\ jumped = Central(Advance(cells \cup Outside(Pow2(L - 1)), Pow2(L - 2)), Pow2(L - 2))

\* the jump of a level-5 node, whose result is not the centre of the node
\* itself and lacks cells that left the central region
C26_Witness ==
    /\ Completed("node_jump")
    /\ level(last.node_store, last.node) = 5
    /\ population(store, last.result) > 0
    /\ LET cells == Elements(call_get_alive_cells(last.node_store, last.node))
           jumped == Elements(call_get_alive_cells(store, last.result))
       IN  /\ jumped # Central(cells, 8)
           /\ jumped # Advance(cells, 8)

\* the jump of a node of level 6, by the nine overlapping jumps of level 5
C26_Recursive ==
    /\ Completed("node_jump")
    /\ level(last.node_store, last.node) >= 6
    /\ population(store, last.result) > 0

\* C27: every invocation of NodeId::step, the recursive ones on the four
\* overlapping tiles included, is on an Interior node of a level L' >= 5 with
\* step_log_2 <= L' - 2; step_level_5 runs only with k <= 2, at most 4
\* generations of the kernel, a level-5 node with k = 3 going through jump;
\* and neither step nor jump is invoked on a leaf.
C27_StepInvocations ==
    \A call \in store.calls :
        /\ call.op \in {"step", "jump"} =>
               /\ call.kind = "Interior"
               /\ call.level >= 5
        /\ call.op = "step" => call.k <= call.level - 2
        /\ call.op = "step_level_5" => call.k <= 2 /\ Pow2(call.k) <= 4

\* a Life::step that went down from level 7 to step on tiles of level 5 with
\* k = 3, which jump has evolved, after one with k < 3, which step_level_5
\* has evolved
C27_Witness ==
    /\ Completed("step")
    /\ level(last.node_store, last.node) = 7
    /\ [op |-> "step", kind |-> "Interior", level |-> 5, k |-> 3] \in store.calls
    /\ [op |-> "jump", kind |-> "Interior", level |-> 5, k |-> 3] \in store.calls
    /\ \E call \in store.calls : call.op = "step_level_5" /\ call.k < 3
    /\ \E call \in store.calls : call.op = "step" /\ call.level = 6 /\ call.k < 4

\* C28: the order of the cells in get_alive_cells depends on the coordinates
\* alone and not on the level of the root: get_alive_cells(expand(n)) is the
\* sequence get_alive_cells(n), so the expansions of pad leave the sequence
\* as it is, and a step after which the alive cells are those before it, as
\* a whole number of periods of an oscillator is, returns the sequence before
\* it, whatever the levels of the two roots are.
C28_OrderOfAliveCells ==
    /\ Completed("expand") =>
           call_get_alive_cells(store, last.result)
               = call_get_alive_cells(last.pre_store, last.node)
    /\ Completed("step") =>
           LET before == call_get_alive_cells(last.pre_store, last.pre_root)
               padded == call_get_alive_cells(last.node_store, last.node)
               after == call_get_alive_cells(store, root)
           IN  /\ padded = before
               /\ Elements(after) = Elements(before) => after = before

\* a step of a whole number of periods of a blinker that lies across four
\* leaves, from a root of level 6 over a padded root of level 8 to a root of
\* level 7
C28_Witness ==
    /\ Completed("step")
    /\ level(last.pre_store, last.pre_root) = 6
    /\ level(last.node_store, last.node) = 8
    /\ level(store, root) = 7
    /\ population(store, root) = 3
    /\ last.k > 0
    /\ call_get_alive_cells(store, root) = call_get_alive_cells(last.pre_store, last.pre_root)

\* expand of a node with alive cells in more than one quadrant
C28_Expanded ==
    /\ Completed("expand")
    /\ Cardinality({ Position_quadrant(pos) :
                       pos \in Elements(call_get_alive_cells(store, last.result)) }) > 1

\* C29: in every store reached through create_empty, set_cell_alive,
\* set_cells_alive, expand, the decomposers, jump and step, the four children
\* of an Interior node of level L have level L - 1 and smaller indices than
\* the node, a leaf has level 3 or 4, and the base, the level and the
\* population of a node are what they were when the node was created.
C29_LevelHomogeneity ==
    /\ \A id \in NodeIds(store) :
           LET node == store.nodes[id + 1]
           IN  /\ node.base.kind = "LevelThree" => node.level = 3
               /\ node.base.kind = "LevelFour" => node.level = 4
               /\ node.base.kind = "Interior" =>
                      \A child \in { node.base.nw, node.base.ne, node.base.sw, node.base.se } :
                          /\ child \in NodeIds(store)
                          /\ child < id
                          /\ store.nodes[child + 1].level = node.level - 1
                          /\ store.nodes[child + 1].level < node.level
    /\ Len(store.nodes) >= Len(last.pre_store.nodes)
    /\ SubSeq(store.nodes, 1, Len(last.pre_store.nodes)) = last.pre_store.nodes

\* a step that has added an Interior node and a leaf with alive cells to a
\* store that holds Interior nodes of two levels and leaves of both levels
C29_Witness ==
    /\ Completed("node_step")
    /\ \E a, c \in Len(last.pre_store.nodes) .. Len(store.nodes) - 1 :
           /\ store.nodes[a + 1].base.kind = "Interior"
           /\ store.nodes[c + 1].level = 4 /\ store.nodes[c + 1].population > 0
    /\ \E a, b, d \in NodeIds(store) :
           /\ store.nodes[a + 1].base.kind = "Interior"
           /\ store.nodes[b + 1].base.kind = "Interior"
           /\ store.nodes[a + 1].level > store.nodes[b + 1].level
           /\ store.nodes[d + 1].level = 3

\* the number of boards added so far that have the bit set
Ones(added, bit) == Cardinality({ i \in 1 .. Len(added) : bit \in added[i] })

\* the neighbours of a bit on a board of the given number of lanes: the lanes
\* rotate, the bits of a lane shift and drop out at either end
LaneNeighbours(e, lanes) ==
    { ((((e \div 16) + dl + lanes) % lanes) * 16) + ((e % 16) + db) :
          dl \in (0 - 1) .. 1, db \in { d \in (0 - 1) .. 1 : (e % 16) + d \in 0 .. 15 } } \ {e}

\* C30: from low = mid = high = 0, after any eight boards of neighbour bits
\* have been added with Counts::add, a bit has (!high & mid & !low) iff it was
\* set in exactly two of the boards and (!high & mid & low) iff in exactly
\* three; after any number of adds high is set iff the bit was set in four or
\* more boards, so it is never cleared, also at eight; and step_once returns
\* the bits with three neighbours and the bits of the board with two.
C30_NeighbourCounter ==
    /\ last.op \in {"Counts_new", "Counts_add"} =>
           \A bit \in CounterBits :
               LET n    == Ones(last.added, bit)
                   low  == bit \in last.counts.low
                   mid  == bit \in last.counts.mid
                   high == bit \in last.counts.high
               IN  /\ high <=> n >= 4
                   /\ Len(last.added) = NeighborBoards =>
                          /\ (~high /\ mid /\ ~low) <=> n = 2
                          /\ (~high /\ mid /\ low) <=> n = 3
    /\ last.op = "step_once" =>
           last.result =
               { e \in 0 .. last.lanes * 16 - 1 :
                     LET n == Cardinality(LaneNeighbours(e, last.lanes) \cap last.board)
                     IN  n = 3 \/ (n = 2 /\ e \in last.board) }

\* eight boards have been added, one bit was set in six of them and the
\* other in all eight
C30_Witness ==
    /\ last.op = "Counts_add"
    /\ Len(last.added) = NeighborBoards
    /\ Ones(last.added, 5) = 6
    /\ Ones(last.added, 300) = 8
    /\ 5 \in last.counts.mid /\ 5 \notin last.counts.low

====
